---- MODULE Spec2Model ----
(***************************************************************************)
(* Verification model of the KeenAI-Quant decision core:                   *)
(*   - Risk_Management/circuit_breakers.py   (CircuitBreaker)              *)
(*   - Risk_Management/risk_assessor.py      (RiskAssessor)                *)
(*   - Risk_Management/risk_validator.py     (RiskValidator)               *)
(*   - Strategy_Framework/strategy_orchestrator.py (resolve_conflicts)     *)
(*   - Backtesting/backtest_engine.py        (BacktestEngine.run)          *)
(*                                                                         *)
(* Number representation.  Python floats are modelled by exact integer     *)
(* arithmetic: money and prices are integers, fractions of the             *)
(* configuration are percentages (0.05 -> 5), confidences are percentages  *)
(* (0.7 -> 70), and position sizes are counted in units of 0.0001 (the     *)
(* precision round(x, 4) keeps), so 0.01 is 100 units.  Comparisons of     *)
(* quotients are cross-multiplied.                                         *)
(***************************************************************************)
EXTENDS Integers, Sequences, FiniteSets, TLC

VARIABLES
    \* ---- CircuitBreaker fields (circuit_breakers.py:52-58)
    status, starting_balance_today, peak_equity, consecutive_losses,
    last_reset_date, trip_history,
    \* ---- RiskValidator.validation_history (risk_validator.py:58)
    validation_history,
    \* ---- the last call made on the risk objects and what it returned
    lastCall,
    \* ---- history: the breaker has tripped and reset_breaker(manual=True)
    \*      has not been called since
    needs_manual_reset,
    \* ---- StrategyOrchestrator.resolve_conflicts: the results it was given,
    \*      the signal it returned, and whether it has been called
    results, final_signal, orch_pc,
    \* ---- RiskAssessor: the last call made on it (operation, arguments) and
    \*      what it returned
    rk_op, rk_signal, rk_account, rk_result,
    \* ---- BacktestEngine.run: position in the code, number of candles
    \*      consumed, the candle of the current iteration, and the locals
    \*      balance, current_position, trades, equity_curve
    bt_pc, bt_i, bt_candle, bt_balance, bt_position, bt_trades,
    bt_equity_curve,
    \* ---- the local timestamps of run; the timestamp of a candle is its
    \*      index in historical_data
    bt_timestamps,
    \* ---- history: the position the last stop-loss / take-profit check
    \*      looked at and the branch it took
    bt_check,
    \* ---- history: the positions _open_position has returned in this run
    bt_opened,
    \* ---- history: for each of these positions the signal it was opened
    \*      for and the balance of the run at that point
    bt_taken,
    \* ---- the local result of the iteration in progress: the StrategyResult
    \*      analyze returned for the current candle
    bt_result,
    \* ---- the PerformanceMetrics of the BacktestResult run returns
    bt_performance,
    \* ---- two runs of BacktestEngine.run on the same candles, side by side:
    \*      position in the code, candles consumed, the current candle,
    \*      the locals of each run (balance, current_position, trades,
    \*      equity_curve), the state of each run's config.strategy, and
    \*      whether the second run was given a newly constructed strategy
    rp_pc, rp_i, rp_candle, rp_a, rp_b, rp_sa, rp_sb, rp_fresh,
    \* ---- BreakoutStrategy for one instrument: price_history[pair],
    \*      previous_position[pair], the context of the last analyze call
    \*      with the state it found, and what the call returned or raised
    bo_price_history, bo_previous_position, bo_call, bo_result,
    \* ---- PerformanceAnalyzer.calculate_metrics: the arguments being put
    \*      together (trades, equity_curve, initial_balance), what the call
    \*      returned, and whether it has been made
    pa_trades, pa_equity_curve, pa_initial_balance, pa_metrics, pa_pc,
    \* ---- TrendFollowingStrategy for one instrument: previous_fast_ema[pair]
    \*      and previous_slow_ema[pair], the context of the last analyze call
    \*      with the previous values it found, and what the call returned,
    \*      built or raised
    tf_previous, tf_call, tf_result,
    \* ---- TechnicalIndicators: the closes of the candle series at hand, the
    \*      dictionary calculate_all returned for it and what the moving
    \*      average functions returned for it, and whether they were called
    ti_closes, ti_indicators, ti_single, ti_pc

cbVars == <<status, starting_balance_today, peak_equity, consecutive_losses,
            last_reset_date, trip_history, validation_history, lastCall,
            needs_manual_reset>>

orchVars == <<results, final_signal, orch_pc>>

riskVars == <<rk_op, rk_signal, rk_account, rk_result>>

\* the variables no operation of the risk objects touches
btVars == <<bt_pc, bt_i, bt_candle, bt_balance, bt_position, bt_trades,
           bt_equity_curve, bt_check, bt_opened, bt_taken,
                   bt_result, bt_performance, bt_timestamps>>

rpVars == <<rp_pc, rp_i, rp_candle, rp_a, rp_b, rp_sa, rp_sb, rp_fresh>>

boVars == <<bo_price_history, bo_previous_position, bo_call, bo_result>>

\* the variables of the components modelled after the backtest engine
paVars == <<pa_trades, pa_equity_curve, pa_initial_balance, pa_metrics,
           pa_pc>>

tfVars == <<tf_previous, tf_call, tf_result>>

tiVars == <<ti_closes, ti_indicators, ti_single, ti_pc>>

moreVars == <<tfVars, tiVars>>

laterVars == <<rpVars, boVars, paVars, moreVars>>

\* the variables no operation of the risk objects touches
notCbVars == <<orchVars, riskVars, btVars, laterVars>>

vars == <<cbVars, orchVars, riskVars, btVars, laterVars>>

-----------------------------------------------------------------------------
(* Bounds of the model *)

\* the breaker is allowed to trip at most MaxTrips times in one behaviour
MaxTrips == 2
\* validate_signal is enabled while fewer than MaxHistory reports are stored
MaxHistory == 1
\* resolve_conflicts is given at most MaxResults strategy results
MaxResults == 3
\* a backtest is given at most MaxCandles candles (the first 50 are warm-up)
MaxCandles == 53
\* the two runs side by side are given at most MaxReplayCandles candles
MaxReplayCandles == 52
\* BreakoutStrategy is constructed with lookback = Lookback (20 by default)
\* and analyses at most MaxAnalyses contexts
Lookback == 3
MaxAnalyses == 5
\* calculate_metrics is given at most MaxCurve equity points and at most
\* MaxPerfTrades trades
MaxCurve == 4
MaxPerfTrades == 2

\* candles of the series handed to the technical indicators
MaxSeries == 60

-----------------------------------------------------------------------------
(* Program constants *)

\* config.risk.max_daily_loss = 0.05, as a percentage
max_daily_loss == 5
\* config.risk.max_drawdown = 0.15, as a percentage
max_drawdown == 15
\* CircuitBreaker.max_consecutive_losses
max_consecutive_losses == 5
\* config.risk.max_position_size = 0.25, as a percentage
max_position_size == 25
\* config.risk.risk_per_trade = 0.02, as a percentage
risk_per_trade == 2
\* config.risk.min_risk_reward = 1.5, in tenths
min_risk_reward == 15
\* max total exposure, 0.75 of the balance, as a percentage
max_exposure_pct == 75
\* required margin, 0.01 of the exposure (1:100 leverage), as a percentage
margin_pct == 1
\* minimum confidence of RiskValidator, 0.6, as a percentage
min_confidence == 60
\* the fallback size 0.01 of calculate_position_size, in units of 0.0001
fallback_size == 100
\* units of size per 1.0: round(position_size, 4) keeps 4 decimals
size_scale == 10000
\* units of size per 0.01 (percentages and sizes share the factor 100)
size_per_pct == size_scale \div 100
\* BacktestEngine.run skips the candles with index below 50
warmup == 50
\* BacktestConfig.slippage = 0.0001 and .commission = 0.0002, in 1/10000
slippage_bp == 1
commission_bp == 2
bp_scale == 10000
\* BacktestConfig.initial_balance of the modelled runs, in cents
initial_balance == 100000
\* BacktestEngine._open_position risks 0.02 of the balance, as a percentage,
\* and falls back to a size of 0.01 (100 units of 0.0001)
backtest_risk_pct == 2
backtest_fallback_size == 100

-----------------------------------------------------------------------------
(* Optional values: None is the empty sequence, a value x is <<x>> *)

None == <<>>
Some(x) == <<x>>
IsNone(o) == o = <<>>
Val(o) == o[1]

Abs(x) == IF x < 0 THEN -x ELSE x

-----------------------------------------------------------------------------
(* backend/models/trading_models.py *)

\* TradingSignal.risk_reward_ratio: the pair <<reward, risk>>; the ratio is
\* reward / risk when risk > 0 and 0.0 otherwise.  Every direction other
\* than BUY takes the SELL branch.
risk_reward_ratio(signal) ==
    IF signal.direction = "BUY"
    THEN [risk   |-> signal.entry_price - signal.stop_loss,
          reward |-> signal.take_profit - signal.entry_price]
    ELSE [risk   |-> signal.stop_loss - signal.entry_price,
          reward |-> signal.entry_price - signal.take_profit]

rr_check_skipped(signal) == FALSE

\* rr_ratio < min_risk_reward, cross-multiplied (risk > 0), 0.0 < 1.5 otherwise
rr_below_minimum(signal) ==
    LET rr == risk_reward_ratio(signal)
    IN  IF rr.risk > 0
        THEN rr.reward * 10 < min_risk_reward * rr.risk
        ELSE 0 < min_risk_reward

-----------------------------------------------------------------------------
(* Risk_Management/risk_assessor.py *)

RECURSIVE SumExposure(_)
\* sum(pos.size * pos.current_price for pos in account.positions),
\* in units of 0.0001
SumExposure(positions) ==
    IF positions = <<>> THEN 0
    ELSE Head(positions).size * Head(positions).current_price
         + SumExposure(Tail(positions))

\* RiskAssessor.validate_trade: the six checks in the order of the code,
\* the first failing one returns.  The reason is the tag of the message.
validate_trade(signal, account) ==
    LET signal_exposure == signal.size * signal.entry_price
        total_exposure  == SumExposure(account.positions) + signal_exposure
    IN
    IF rr_below_minimum(signal)
    THEN [exc |-> "none", is_valid |-> FALSE, reason |-> "risk_reward"]
    ELSE IF signal.entry_price = 0
    THEN \* account.balance * max_position_size / signal.entry_price raises
         [exc |-> "ZeroDivisionError", is_valid |-> FALSE, reason |-> "raised"]
    ELSE IF signal.size * signal.entry_price
              > account.balance * max_position_size * size_per_pct
    THEN [exc |-> "none", is_valid |-> FALSE, reason |-> "position_size"]
    ELSE IF total_exposure > account.balance * max_exposure_pct * size_per_pct
    THEN [exc |-> "none", is_valid |-> FALSE, reason |-> "exposure"]
    ELSE IF signal.direction = "BUY" /\ signal.stop_loss >= signal.entry_price
    THEN [exc |-> "none", is_valid |-> FALSE, reason |-> "stop_loss_buy"]
    ELSE IF signal.direction = "SELL" /\ signal.stop_loss <= signal.entry_price
    THEN [exc |-> "none", is_valid |-> FALSE, reason |-> "stop_loss_sell"]
    ELSE IF signal.direction = "BUY" /\ signal.take_profit <= signal.entry_price
    THEN [exc |-> "none", is_valid |-> FALSE, reason |-> "take_profit_buy"]
    ELSE IF signal.direction = "SELL" /\ signal.take_profit >= signal.entry_price
    THEN [exc |-> "none", is_valid |-> FALSE, reason |-> "take_profit_sell"]
    ELSE IF signal_exposure * margin_pct > account.margin_available * 100 * size_scale
    THEN [exc |-> "none", is_valid |-> FALSE, reason |-> "margin"]
    ELSE [exc |-> "none", is_valid |-> TRUE, reason |-> "passed"]

\* round(n / d, 0) for d > 0, ties to even, as Python's round
RoundHalfEven(n, d) ==
    LET fl  == n \div d
        rem == n % d
    IN  IF 2 * rem < d THEN fl
        ELSE IF 2 * rem > d THEN fl + 1
        ELSE IF fl % 2 = 0 THEN fl ELSE fl + 1

\* RiskAssessor.calculate_position_size, the result in units of 0.0001.
\* Prices are never negative (entry_price >= 0).
calculate_position_size(signal, account) ==
    LET stop_distance == Abs(signal.entry_price - signal.stop_loss)
        \* position_size = risk_amount / stop_distance
        \*   = rn / (100 * stop_distance)
        rn == account.balance * risk_per_trade
        \* max_size_by_account = balance * max_position_size / entry
        \*   = mn / (100 * entry_price)
        mn == account.balance * max_position_size
    IN
    IF stop_distance = 0
    THEN [exc |-> "none", size |-> fallback_size]
    ELSE IF signal.entry_price = 0
    THEN [exc |-> "ZeroDivisionError", size |-> 0]
    ELSE \* min(position_size, max_size_by_account), then round(.., 4)
         IF rn * signal.entry_price <= mn * stop_distance
         THEN [exc |-> "none",
               size |-> RoundHalfEven(rn * size_per_pct, stop_distance)]
         ELSE [exc |-> "none",
               size |-> RoundHalfEven(mn * size_per_pct, signal.entry_price)]

\* the default atr_multiplier = 2.0 of calculate_stop_loss
atr_multiplier == 2

\* the lowest level calculate_stop_loss and calculate_take_profit return,
\* 0.0001, in the unit of the levels, 0.00001
min_level == 10

\* validate_price: the exception it raises
validate_price(price) == IF price <= 0 THEN "ValueError" ELSE "none"

\* RiskAssessor.calculate_stop_loss with the default multiplier; prices, the
\* ATR and the result in units of 0.00001, to which the result is rounded
calculate_stop_loss(entry_price, atr, direction) ==
    LET stop_distance == atr * atr_multiplier
        stop_loss     == IF direction = "BUY"
                         THEN entry_price - stop_distance
                         ELSE entry_price + stop_distance
    IN  IF validate_price(entry_price) # "none" \/ validate_price(atr) # "none"
        THEN [exc |-> "ValueError", level |-> 0]
        ELSE IF direction \notin {"BUY", "SELL"}
        THEN [exc |-> "ValueError", level |-> 0]
        ELSE [exc |-> "none",
              level |-> IF stop_loss > min_level THEN stop_loss
                        ELSE min_level]

\* RiskAssessor.calculate_take_profit with rr_ratio = min_risk_reward; the
\* level is computed in halves of the unit and rounded to the unit
calculate_take_profit(entry_price, stop_loss, direction) ==
    LET risk_distance == Abs(entry_price - stop_loss)
        \* 2 * reward_distance = 2 * risk_distance * rr_ratio
        reward_twice  == (risk_distance * min_risk_reward) \div 5
        twice         == IF direction = "BUY"
                         THEN 2 * entry_price + reward_twice
                         ELSE 2 * entry_price - reward_twice
        clamped       == IF twice > 2 * min_level THEN twice
                         ELSE 2 * min_level
    IN  IF validate_price(entry_price) # "none"
           \/ validate_price(stop_loss) # "none"
        THEN [exc |-> "ValueError", level |-> 0]
        ELSE IF direction \notin {"BUY", "SELL"}
        THEN [exc |-> "ValueError", level |-> 0]
        ELSE [exc |-> "none", level |-> RoundHalfEven(clamped, 2)]

\* RiskAssessor.adjust_signal_for_risk: a new TradingSignal with the computed
\* size; TradingSignal.__post_init__ raises ValueError when size <= 0
adjust_signal_for_risk(signal, account) ==
    LET r == calculate_position_size(signal, account)
    IN  IF r.exc # "none" THEN [exc |-> r.exc, signal |-> signal]
        ELSE IF r.size <= 0 THEN [exc |-> "ValueError", signal |-> signal]
        ELSE [exc |-> "none", signal |-> [signal EXCEPT !.size = r.size]]

-----------------------------------------------------------------------------
(* Risk_Management/circuit_breakers.py *)

\* The CircuitBreaker object as a record of its fields
CB == [status                 |-> status,
       starting_balance_today |-> starting_balance_today,
       peak_equity            |-> peak_equity,
       consecutive_losses     |-> consecutive_losses,
       last_reset_date        |-> last_reset_date,
       trip_history           |-> trip_history]

\* CircuitBreaker._trigger_breaker: status TRIPPED, one event appended
trigger_breaker(cb, reason) ==
    [cb EXCEPT !.status = "TRIPPED",
               !.trip_history = Append(@, reason)]

\* check_daily_loss with the sign test of the P&L dropped
check_daily_loss_nosign(cb, current_pnl, starting_balance) ==
    IF starting_balance <= 0
    THEN [cb |-> cb, ret |-> TRUE]
    ELSE IF Abs(current_pnl) * 100 > max_daily_loss * starting_balance
    THEN [cb |-> trigger_breaker(cb, "Daily loss limit exceeded"), ret |-> FALSE]
    ELSE [cb |-> cb, ret |-> TRUE]

\* CircuitBreaker.check_daily_loss
check_daily_loss(cb, current_pnl, starting_balance) ==
    IF starting_balance <= 0
    THEN [cb |-> cb, ret |-> TRUE]
    ELSE IF current_pnl < 0
            /\ Abs(current_pnl) * 100 > max_daily_loss * starting_balance
    THEN [cb |-> trigger_breaker(cb, "Daily loss limit exceeded"), ret |-> FALSE]
    ELSE [cb |-> cb, ret |-> TRUE]

\* CircuitBreaker.check_drawdown
check_drawdown(cb, current_equity, peak) ==
    IF peak <= 0
    THEN [cb |-> cb, ret |-> TRUE]
    ELSE IF (peak - current_equity) * 100 > max_drawdown * peak
    THEN [cb |-> trigger_breaker(cb, "Maximum drawdown exceeded"), ret |-> FALSE]
    ELSE [cb |-> cb, ret |-> TRUE]

\* check_consecutive_losses with > for >=
check_consecutive_losses_strict(cb) ==
    IF cb.consecutive_losses > max_consecutive_losses
    THEN [cb |-> trigger_breaker(cb, "Maximum consecutive losses reached"),
          ret |-> FALSE]
    ELSE [cb |-> cb, ret |-> TRUE]

\* CircuitBreaker.check_consecutive_losses
check_consecutive_losses(cb) ==
    IF cb.consecutive_losses >= max_consecutive_losses
    THEN [cb |-> trigger_breaker(cb, "Maximum consecutive losses reached"),
          ret |-> FALSE]
    ELSE [cb |-> cb, ret |-> TRUE]

\* Dates are kept relative to the current calendar day: "today" is the day
\* date.today() returns now, "earlier" is any day before it (the code only
\* compares a stored date with today for equality, and days never come back)
today == "today"

\* CircuitBreaker._check_daily_reset
check_daily_reset(cb) ==
    IF cb.last_reset_date # Some(today)
    THEN [cb EXCEPT !.starting_balance_today = None,
                    !.last_reset_date = Some(today),
                    !.consecutive_losses = 0]
    ELSE cb

\* CircuitBreaker.check_all_conditions
check_all_conditions(cb, account) ==
    IF cb.status = "TRIPPED" THEN [cb |-> cb, ret |-> FALSE]
    ELSE IF cb.status = "MANUAL_OVERRIDE" THEN [cb |-> cb, ret |-> TRUE]
    ELSE
    LET cb1 == check_daily_reset(cb)
        cb2 == IF IsNone(cb1.starting_balance_today)
               THEN [cb1 EXCEPT !.starting_balance_today = Some(account.balance)]
               ELSE cb1
        cb3 == IF IsNone(cb2.peak_equity) \/ account.equity > Val(cb2.peak_equity)
               THEN [cb2 EXCEPT !.peak_equity = Some(account.equity)]
               ELSE cb2
        r1  == check_daily_loss(cb3, account.realized_pnl_today,
                                Val(cb3.starting_balance_today))
        r2  == check_drawdown(r1.cb, account.equity, Val(r1.cb.peak_equity))
        r3  == check_consecutive_losses(r2.cb)
    IN  IF ~r1.ret THEN r1
        ELSE IF ~r2.ret THEN r2
        ELSE r3

\* CircuitBreaker.record_trade_result
record_trade_result(cb, pnl) ==
    LET cb1 == IF pnl < 0
               THEN [cb EXCEPT !.consecutive_losses = @ + 1]
               ELSE [cb EXCEPT !.consecutive_losses = 0]
    IN  check_consecutive_losses(cb1).cb

\* CircuitBreaker.reset_breaker
reset_breaker(cb, manual) ==
    IF cb.status = "TRIPPED"
    THEN IF manual
         THEN [cb  |-> [cb EXCEPT !.status = "ACTIVE", !.consecutive_losses = 0],
               ret |-> TRUE]
         ELSE [cb |-> cb, ret |-> FALSE]
    ELSE [cb |-> cb, ret |-> TRUE]

\* CircuitBreaker.enable_manual_override
enable_manual_override(cb) == [cb EXCEPT !.status = "MANUAL_OVERRIDE"]

\* CircuitBreaker.disable_manual_override
disable_manual_override(cb) ==
    IF cb.status = "MANUAL_OVERRIDE"
    THEN [cb EXCEPT !.status = "ACTIVE"]
    ELSE cb

-----------------------------------------------------------------------------
(* Risk_Management/risk_validator.py *)

\* step 1 of validate_signal with the breaker's answer ignored
breaker_rejection_ignored(allowed) == <<>>

\* validate_signal, step 1: the rejection reason of a failed breaker check
breaker_rejection(allowed) ==
    IF ~allowed THEN <<"circuit_breaker">> ELSE <<>>

\* RiskValidator.validate_signal(signal, account, adjust_size):
\* the breaker after the call and either the report or the exception raised
validate_signal(cb, signal, account, adjust_size) ==
    LET chk  == check_all_conditions(cb, account)
        r0   == breaker_rejection(chk.ret)
        adj  == IF adjust_size
                THEN adjust_signal_for_risk(signal, account)
                ELSE [exc |-> "none", signal |-> signal]
        vr   == validate_trade(adj.signal, account)
        r1   == IF vr.is_valid THEN r0 ELSE Append(r0, vr.reason)
        r2   == IF adj.signal.direction = "HOLD" THEN Append(r1, "hold") ELSE r1
        r3   == IF adj.signal.confidence < min_confidence
                THEN Append(r2, "confidence") ELSE r2
    IN  IF adj.exc # "none"
        THEN [cb |-> chk.cb, exc |-> adj.exc, report |-> <<>>]
        ELSE IF vr.exc # "none"
        THEN [cb |-> chk.cb, exc |-> vr.exc, report |-> <<>>]
        ELSE [cb |-> chk.cb, exc |-> "none",
              report |-> <<[is_approved            |-> r3 = <<>>,
                            size                   |-> adj.signal.size,
                            validation_result      |-> vr,
                            circuit_breaker_status |-> chk.cb.status,
                            rejection_reasons      |-> r3]>>]

-----------------------------------------------------------------------------
(* StrategyOrchestrator.resolve_conflicts (strategy_orchestrator.py:79-127) *)
(* A StrategyResult is [signal, confidence] with signal an Optional        *)
(* TradingSignal; its confidence is a field of its own, next to the        *)
(* confidence of the signal.                                               *)

\* [... for r in results if r.signal is not None]
signals_with_results(rs) == SelectSeq(rs, LAMBDA r : ~IsNone(r.signal))

signals_of_direction(rs, d) ==
    SelectSeq(rs, LAMBDA r : Val(r.signal).direction = d)

first_signal(rs) == rs[1]

\* max(rs, key=lambda x: x[1]): the first element with the greatest
\* StrategyResult confidence
max_by_confidence(rs) ==
    rs[CHOOSE i \in 1..Len(rs) :
          /\ \A j \in 1..Len(rs) : rs[j].confidence <= rs[i].confidence
          /\ \A j \in 1..(i - 1) : rs[j].confidence < rs[i].confidence]

opposite_directions_ignored(buy_signals, sell_signals) == FALSE

\* if buy_signals and sell_signals
opposite_directions(buy_signals, sell_signals) ==
    buy_signals # <<>> /\ sell_signals # <<>>

resolve_conflicts(rs) ==
    LET swr          == signals_with_results(rs)
        buy_signals  == signals_of_direction(swr, "BUY")
        sell_signals == signals_of_direction(swr, "SELL")
    IN  IF swr = <<>> THEN None
        ELSE IF Len(swr) = 1 THEN swr[1].signal
        ELSE IF opposite_directions(buy_signals, sell_signals) THEN None
        ELSE IF buy_signals # <<>> THEN max_by_confidence(buy_signals).signal
        ELSE IF sell_signals # <<>> THEN max_by_confidence(sell_signals).signal
        ELSE None

-----------------------------------------------------------------------------
(* Backtesting/backtest_engine.py.  Prices and money are in cents, sizes   *)
(* in units of 0.0001; quotients are rounded down to the unit.             *)

\* price * (1 + config.slippage) when up, price * (1 - config.slippage) else
slipped(price, up) ==
    IF up THEN price + (price * slippage_bp) \div bp_scale
    ELSE price - (price * slippage_bp) \div bp_scale

\* BacktestEngine._open_position
open_position(signal, current_price, timestamp, balance) ==
    LET entry_price   == slipped(current_price, signal.direction = "BUY")
        risk_amount   == (balance * backtest_risk_pct) \div 100
        stop_distance == Abs(entry_price - signal.stop_loss)
    IN  [direction   |-> signal.direction,
         size        |-> IF stop_distance > 0
                         THEN (risk_amount * size_scale) \div stop_distance
                         ELSE backtest_fallback_size,
         entry_price |-> entry_price,
         stop_loss   |-> signal.stop_loss,
         take_profit |-> signal.take_profit,
         opened_at   |-> timestamp]

close_position_at_entry(position, exit_price, timestamp) ==
    [entry_time  |-> position.opened_at,
     exit_time   |-> position.opened_at,
     direction   |-> position.direction,
     entry_price |-> position.entry_price,
     exit_price  |-> position.entry_price,
     size        |-> position.size,
     pnl         |-> 0,
     commission  |-> 0]

\* BacktestEngine._close_position: the Trade record
close_position(position, exit_price, timestamp) ==
    LET actual_exit == slipped(exit_price, position.direction # "BUY")
        gross       == IF position.direction = "BUY"
                       THEN ((actual_exit - position.entry_price)
                               * position.size) \div size_scale
                       ELSE ((position.entry_price - actual_exit)
                               * position.size) \div size_scale
        commission  == ((((position.entry_price + actual_exit)
                            * position.size) \div size_scale)
                          * commission_bp) \div bp_scale
    IN  [entry_time  |-> position.opened_at,
         exit_time   |-> timestamp,
         direction   |-> position.direction,
         entry_price |-> position.entry_price,
         exit_price  |-> actual_exit,
         size        |-> position.size,
         pnl         |-> gross - commission,
         commission  |-> commission]

check_stops_target_first(position, candle) ==
    IF position.direction = "BUY"
    THEN IF candle.high >= position.take_profit THEN "take_profit"
         ELSE IF candle.low <= position.stop_loss THEN "stop_loss"
         ELSE "none"
    ELSE IF candle.low <= position.take_profit THEN "take_profit"
         ELSE IF candle.high >= position.stop_loss THEN "stop_loss"
         ELSE "none"

\* the branch the stop-loss / take-profit check of run takes for an open
\* position; every direction other than BUY takes the SELL branch
check_stops(position, candle) ==
    IF position.direction = "BUY"
    THEN IF candle.low <= position.stop_loss THEN "stop_loss"
         ELSE IF candle.high >= position.take_profit THEN "take_profit"
         ELSE "none"
    ELSE IF candle.high >= position.stop_loss THEN "stop_loss"
         ELSE IF candle.low <= position.take_profit THEN "take_profit"
         ELSE "none"

current_equity_realized(balance, position, candle) == balance

\* the equity appended to equity_curve: balance plus unrealized P&L
current_equity(balance, position, candle) ==
    IF IsNone(position) THEN balance
    ELSE IF Val(position).direction = "BUY"
    THEN balance + ((candle.close - Val(position).entry_price)
                      * Val(position).size) \div size_scale
    ELSE balance + ((Val(position).entry_price - candle.close)
                      * Val(position).size) \div size_scale

same_direction_reopens(position, signal) == TRUE

\* current_position.direction != signal.direction
opposite_direction(position, signal) ==
    position.direction # signal.direction

add_gross_pnl(balance, trade) == balance + trade.pnl + trade.commission

\* balance += trade.pnl
add_pnl(balance, trade) == balance + trade.pnl

\* one iteration of the loop of run with i >= 50 on the locals of run, for
\* the StrategyResult the strategy returned: the signal handling, the
\* stop-loss / take-profit check and the equity point
run_iteration(run, candle, result, i) ==
    LET take      == /\ ~IsNone(result.signal)
                     /\ result.confidence >= min_confidence
        signal    == Val(result.signal)
        opposite  == /\ take
                     /\ ~IsNone(run.position)
                     /\ opposite_direction(Val(run.position), signal)
        trade1    == close_position(Val(run.position), candle.close, i)
        balance1  == IF opposite THEN add_pnl(run.balance, trade1)
                     ELSE run.balance
        trades1   == IF opposite THEN Append(run.trades, trade1)
                     ELSE run.trades
        position1 == IF take /\ (opposite \/ IsNone(run.position))
                     THEN Some(open_position(signal, candle.close, i,
                                             balance1))
                     ELSE run.position
        branch    == IF IsNone(position1) THEN "none"
                     ELSE check_stops(Val(position1), candle)
        trade2    == close_position(Val(position1),
                                    IF branch = "stop_loss"
                                    THEN Val(position1).stop_loss
                                    ELSE Val(position1).take_profit,
                                    i)
        balance2  == IF branch = "none" THEN balance1
                     ELSE add_pnl(balance1, trade2)
        position2 == IF branch = "none" THEN position1 ELSE None
    IN  [balance      |-> balance2,
         position     |-> position2,
         trades       |-> IF branch = "none" THEN trades1
                          ELSE Append(trades1, trade2),
         equity_curve |-> Append(run.equity_curve,
                                 current_equity(balance2, position2,
                                                candle))]

\* the code of run after the loop: the remaining position is closed at the
\* close of the last candle
run_finish(run, last_candle, last_timestamp) ==
    IF IsNone(run.position) THEN run
    ELSE LET trade == close_position(Val(run.position), last_candle.close,
                                     last_timestamp)
         IN  [run EXCEPT !.trades = Append(run.trades, trade),
                         !.balance = add_pnl(run.balance, trade)]

\* what the MarketContext built by run for a candle holds besides the
\* candles themselves: the price and the balance of the run
market_context(candle, balance) ==
    [current_price |-> candle.close, account_balance |-> balance]

\* the state of a strategy object: whether it was used before this run, and
\* the contexts it has analysed in this run
new_strategy == [used |-> FALSE, seen |-> <<>>]

used_strategy == [used |-> TRUE, seen |-> <<>>]

strategy_kept(fresh) == used_strategy

\* config.strategy of the second run: a newly constructed object, or the
\* object an earlier run has used
strategy_of_second_run(fresh) ==
    IF fresh THEN new_strategy ELSE used_strategy

\* analyze is a method of the strategy object: two calls in the same state
\* of the object on the same context return the same StrategyResult
same_analysis(sa, ca, sb, cb) == sa = sb /\ ca = cb

-----------------------------------------------------------------------------
(* Strategy_Framework/breakout_strategy.py.  Confidences and the breakout *)
(* strength are in units of 0.0001, rounded down.                          *)

\* BreakoutStrategy.supported_pairs
breakout_pairs == {"BTC/USD", "ETH/USD"}

\* BreakoutStrategy.min_confidence_threshold = 0.65
breakout_threshold == 6500

\* BreakoutStrategy.max_history_size
max_history_size == 200

SeqMax(xs) == CHOOSE x \in {xs[k] : k \in 1..Len(xs)} :
                  \A k \in 1..Len(xs) : x >= xs[k]

SeqMin(xs) == CHOOSE x \in {xs[k] : k \in 1..Len(xs)} :
                  \A k \in 1..Len(xs) : x <= xs[k]

\* BaseStrategy.validate_context: the pair is supported and the context
\* object has the attributes rsi_14, macd_line, bb_upper, bb_lower, atr_14
validate_context(context, supported_pairs) ==
    /\ context.pair \in supported_pairs
    /\ context.indicator_attributes

\* BreakoutStrategy._update_price_history
update_price_history(prices, price) ==
    LET appended == Append(prices, price)
    IN  IF Len(appended) > max_history_size
        THEN SubSeq(appended, Len(appended) - max_history_size + 1,
                    Len(appended))
        ELSE appended

\* BreakoutStrategy._calculate_donchian_channels: None below lookback
\* prices, else the extremes of prices[-lookback:-1]
calculate_donchian_channels(prices) ==
    IF Len(prices) < Lookback THEN None
    ELSE LET recent_prices == SubSeq(prices, Len(prices) - Lookback + 1,
                                     Len(prices) - 1)
         IN  Some([upper |-> SeqMax(recent_prices),
                   lower |-> SeqMin(recent_prices)])

\* min(breakout_distance / channel_range, 1.0), 0.5 for an empty range
breakout_strength(distance, channel_range) ==
    IF channel_range > 0
    THEN IF (distance * 10000) \div channel_range < 10000
         THEN (distance * 10000) \div channel_range
         ELSE 10000
    ELSE 5000

\* (breakout_strength + min(volatility_percentile / 80.0, 1.0)) / 2.0
breakout_confidence(distance, channel_range, volatility_percentile) ==
    LET volatility_confidence ==
            IF (volatility_percentile * 10000) \div 80 < 10000
            THEN (volatility_percentile * 10000) \div 80
            ELSE 10000
    IN  (breakout_strength(distance, channel_range)
           + volatility_confidence) \div 2

\* TradingSignal.__post_init__: the exception the construction raises
signal_post_init(confidence, size) ==
    IF confidence < 0 \/ confidence > 10000 THEN "ValueError"
    ELSE IF size <= 0 THEN "ValueError"
    ELSE "none"

\* the size every TradingSignal built by a strategy is given (size=0.0)
strategy_signal_size == 0

\* the TradingSignal a strategy builds; the confidence is kept in units of
\* 0.0001
strategy_signal(direction, confidence, entry_price, stop_loss, take_profit) ==
    [direction |-> direction, confidence |-> confidence,
     entry_price |-> entry_price, stop_loss |-> stop_loss,
     take_profit |-> take_profit, size |-> strategy_signal_size]

\* BreakoutStrategy.analyze on the state st = [price_history,
\* previous_position] of the instrument: the new state, the exception
\* raised, and the signal and confidence of the StrategyResult returned
breakout_analyze(st, context) ==
    IF ~validate_context(context, breakout_pairs)
    THEN [st |-> st, exc |-> "none", signal |-> None, confidence |-> 0]
    ELSE
    LET current_price == context.current_price
        prices   == update_price_history(st.price_history, current_price)
        st1      == [st EXCEPT !.price_history = prices]
        channels == calculate_donchian_channels(prices)
        upper    == Val(channels).upper
        lower    == Val(channels).lower
        prev     == st.previous_position
    IN  IF IsNone(channels)
        THEN [st |-> st1, exc |-> "none", signal |-> None, confidence |-> 0]
        ELSE IF current_price > upper
        THEN LET confidence ==
                     breakout_confidence(current_price - upper, upper - lower,
                                         context.volatility_percentile)
                 stop_loss   == lower
                 take_profit == current_price + 2 * (current_price - lower)
                 exc == signal_post_init(confidence, strategy_signal_size)
             IN  IF prev # "long" /\ confidence >= breakout_threshold
                 THEN IF exc # "none"
                      THEN [st |-> st1, exc |-> exc, signal |-> None,
                            confidence |-> confidence]
                      ELSE [st |-> [st1 EXCEPT !.previous_position = "long"],
                            exc |-> "none",
                            signal |-> Some(strategy_signal("BUY", confidence,
                                     current_price, stop_loss, take_profit)),
                            confidence |-> confidence]
                 ELSE [st |-> st1, exc |-> "none", signal |-> None,
                       confidence |-> confidence]
        ELSE IF current_price < lower
        THEN LET confidence ==
                     breakout_confidence(lower - current_price, upper - lower,
                                         context.volatility_percentile)
                 stop_loss   == upper
                 take_profit == current_price - 2 * (upper - current_price)
                 exc == signal_post_init(confidence, strategy_signal_size)
             IN  IF prev # "short" /\ confidence >= breakout_threshold
                 THEN IF exc # "none"
                      THEN [st |-> st1, exc |-> exc, signal |-> None,
                            confidence |-> confidence]
                      ELSE [st |-> [st1 EXCEPT !.previous_position = "short"],
                            exc |-> "none",
                            signal |-> Some(strategy_signal("SELL", confidence,
                                     current_price, stop_loss, take_profit)),
                            confidence |-> confidence]
                 ELSE [st |-> st1, exc |-> "none", signal |-> None,
                       confidence |-> confidence]
        ELSE [st |-> [st1 EXCEPT !.previous_position = "none"],
              exc |-> "none", signal |-> None, confidence |-> 0]

-----------------------------------------------------------------------------
(* Strategy_Framework/trend_following_strategy.py.  Confidences are in     *)
(* units of 0.0001.                                                        *)

\* TrendFollowingStrategy.supported_pairs
trend_pairs == {"EUR/USD", "XAU/USD", "BTC/USD", "ETH/USD"}

\* TrendFollowingStrategy.adx_threshold
adx_threshold == 25

\* TrendFollowingStrategy.min_confidence_threshold = 0.65
trend_threshold == 6500

\* (adx_confidence + trend_confidence) / 2.0 of a crossover towards the
\* trend named aligned
crossover_confidence(adx, trend, aligned) ==
    LET scaled           == (adx * 10000) \div 50
        adx_confidence   == IF scaled < 10000 THEN scaled ELSE 10000
        trend_confidence == IF trend = aligned THEN 10000 ELSE 7000
    IN  (adx_confidence + trend_confidence) \div 2

\* prev_fast <= prev_slow and fast_ema > slow_ema
bullish_crossover(prev, fast_ema, slow_ema) ==
    prev.fast <= prev.slow /\ fast_ema > slow_ema

\* prev_fast >= prev_slow and fast_ema < slow_ema
bearish_crossover(prev, fast_ema, slow_ema) ==
    prev.fast >= prev.slow /\ fast_ema < slow_ema

\* TrendFollowingStrategy.analyze on the previous values st of the
\* instrument (None before the first update): the new previous values, the
\* exception raised, the direction of the TradingSignal the call built, and
\* the signal and confidence of the StrategyResult returned
trend_analyze(st, context) ==
    IF ~validate_context(context, trend_pairs)
    THEN [st |-> st, exc |-> "none", built |-> "none", signal |-> None,
          confidence |-> 0]
    ELSE
    LET fast_ema == context.ema_9
        slow_ema == context.ema_21
        adx      == context.adx_14
        atr      == context.atr_14
        current_price == context.current_price
        updated  == Some([fast |-> fast_ema, slow |-> slow_ema])
        quiet(c) == [st |-> updated, exc |-> "none", built |-> "none",
                     signal |-> None, confidence |-> c]
        fire(direction, c, stop_loss, take_profit) ==
            LET exc == signal_post_init(c, strategy_signal_size)
            IN  IF exc # "none"
                THEN [st |-> st, exc |-> exc, built |-> direction,
                      signal |-> None, confidence |-> c]
                ELSE [st |-> updated, exc |-> "none", built |-> direction,
                      signal |-> Some(strategy_signal(direction, c,
                                   current_price, stop_loss, take_profit)),
                      confidence |-> c]
    IN  IF adx < adx_threshold THEN quiet(0)
        ELSE IF IsNone(st) THEN quiet(0)
        ELSE IF bullish_crossover(Val(st), fast_ema, slow_ema)
        THEN LET c == crossover_confidence(adx, context.trend, "bullish")
             IN  IF c >= trend_threshold
                 THEN fire("BUY", c, current_price - 2 * atr,
                           current_price + 3 * atr)
                 ELSE quiet(c)
        ELSE IF bearish_crossover(Val(st), fast_ema, slow_ema)
        THEN LET c == crossover_confidence(adx, context.trend, "bearish")
             IN  IF c >= trend_threshold
                 THEN fire("SELL", c, current_price + 2 * atr,
                           current_price - 3 * atr)
                 ELSE quiet(c)
        ELSE quiet(0)

-----------------------------------------------------------------------------
(* Backtesting/performance_analyzer.py.  Money is in the unit of the      *)
(* equity curve; total_return, max_drawdown and win_rate are in units of   *)
(* 0.01 percent resp. 0.0001, profit_factor, sharpe_ratio and              *)
(* avg_trade_duration in units of 0.01; quotients are rounded to the unit. *)

RECURSIVE SeqSum(_)
SeqSum(xs) ==
    IF xs = <<>> THEN 0 ELSE xs[1] + SeqSum(Tail(xs))

RECURSIVE maximum_accumulate(_)
\* np.maximum.accumulate
maximum_accumulate(xs) ==
    IF xs = <<>> THEN <<>>
    ELSE LET front == maximum_accumulate(SubSeq(xs, 1, Len(xs) - 1))
             last  == xs[Len(xs)]
         IN  Append(front,
                    IF front = <<>> \/ last > front[Len(front)]
                    THEN last ELSE front[Len(front)])

running_max_of_whole_curve(equity_curve) ==
    [k \in 1..Len(equity_curve) |-> SeqMax(equity_curve)]

\* running_max of _calculate_max_drawdown
running_max(equity_curve) == maximum_accumulate(equity_curve)

\* PerformanceAnalyzer._calculate_max_drawdown: abs(min((equity -
\* running_max) / running_max)) * 100, in units of 0.01 percent
calculate_max_drawdown(equity_curve) ==
    IF Len(equity_curve) < 2 THEN 0
    ELSE LET peaks    == running_max(equity_curve)
             drawdown == [k \in 1..Len(equity_curve) |->
                            -(((peaks[k] - equity_curve[k]) * 10000)
                                \div peaks[k])]
         IN  Abs(SeqMin(drawdown))

RECURSIVE isqrt_between(_, _, _)
\* the integer part of the square root of v, between lo and hi
isqrt_between(v, lo, hi) ==
    IF lo >= hi THEN lo
    ELSE LET mid == (lo + hi + 1) \div 2
         IN  IF mid * mid <= v THEN isqrt_between(v, mid, hi)
             ELSE isqrt_between(v, lo, mid - 1)

\* returns = np.diff(equity_curve) / equity_curve[:-1], in units of 0.0001
curve_returns(equity_curve) ==
    [k \in 1..(Len(equity_curve) - 1) |->
        ((equity_curve[k + 1] - equity_curve[k]) * 10000)
          \div equity_curve[k]]

\* (np.mean(returns) / np.std(returns)) * np.sqrt(252) when there are two
\* or more returns and their deviation is positive, else 0
sharpe_of(returns) ==
    LET n    == Len(returns)
        mean == SeqSum(returns) \div n
        var  == SeqSum([k \in 1..n |->
                          (returns[k] - mean) * (returns[k] - mean)]) \div n
        std  == isqrt_between(var, 0, 40000)
    IN  IF n > 1 /\ std > 0 THEN (mean * 1587) \div std ELSE 0

\* the PerformanceMetrics of a run without a trade
zero_metrics ==
    [total_return |-> 0, sharpe_ratio |-> 0, max_drawdown |-> 0,
     win_rate |-> 0, profit_factor |-> 0, avg_win |-> 0, avg_loss |-> 0,
     total_trades |-> 0, winning_trades |-> 0, losing_trades |-> 0,
     largest_win |-> 0, largest_loss |-> 0, avg_trade_duration |-> 0]

\* the pnl of the trades that satisfy keep, in order
RECURSIVE pnls_where(_, _)
pnls_where(trades, winning) ==
    IF trades = <<>> THEN <<>>
    ELSE IF (trades[1].pnl > 0) = winning
    THEN <<trades[1].pnl>> \o pnls_where(Tail(trades), winning)
    ELSE pnls_where(Tail(trades), winning)

\* PerformanceAnalyzer.calculate_metrics
calculate_metrics(trades, equity_curve, initial_bal) ==
    IF trades = <<>> THEN zero_metrics
    ELSE
    LET wins         == pnls_where(trades, TRUE)
        losses       == pnls_where(trades, FALSE)
        total_wins   == SeqSum(wins)
        total_losses == Abs(SeqSum(losses))
        durations    == [k \in 1..Len(trades) |->
                           trades[k].exit_time - trades[k].entry_time]
    IN  [total_return   |-> ((equity_curve[Len(equity_curve)] - initial_bal)
                               * 10000) \div initial_bal,
         sharpe_ratio   |-> sharpe_of(curve_returns(equity_curve)),
         max_drawdown   |-> calculate_max_drawdown(equity_curve),
         win_rate       |-> (Len(wins) * 10000) \div Len(trades),
         profit_factor  |-> IF total_losses > 0
                            THEN (total_wins * 100) \div total_losses
                            ELSE 0,
         avg_win        |-> IF wins # <<>> THEN total_wins \div Len(wins)
                            ELSE 0,
         avg_loss       |-> IF losses # <<>>
                            THEN SeqSum(losses) \div Len(losses)
                            ELSE 0,
         total_trades   |-> Len(trades),
         winning_trades |-> Len(wins),
         losing_trades  |-> Len(losses),
         largest_win    |-> IF wins # <<>> THEN SeqMax(wins) ELSE 0,
         largest_loss   |-> IF losses # <<>> THEN SeqMin(losses) ELSE 0,
         avg_trade_duration |-> (SeqSum(durations) * 100) \div Len(trades)]

-----------------------------------------------------------------------------
(* Data_Engine/technical_analysis/indicators.py.  A candle series is the   *)
(* sequence of its closes, in cents; averages are rounded down to the      *)
(* cent.  A dictionary is the set of its <<key, value>> pairs.             *)

\* TechnicalIndicators.sma: None below period candles
sma(closes, period) ==
    IF Len(closes) < period THEN None
    ELSE Some(SeqSum(SubSeq(closes, Len(closes) - period + 1, Len(closes)))
                \div period)

RECURSIVE ema_values(_, _, _)
\* ema_values[k] of TechnicalIndicators.ema, with multiplier 2 / (period + 1)
ema_values(closes, k, period) ==
    IF k = 1 THEN closes[1]
    ELSE (closes[k] * 2 + ema_values(closes, k - 1, period) * (period - 1))
           \div (period + 1)

\* TechnicalIndicators.ema: None below period candles
ema(closes, period) ==
    IF Len(closes) < period THEN None
    ELSE Some(ema_values(closes, Len(closes), period))

\* Python's 'value or default' on an Optional[float]: the default for None
\* and for 0.0
or_default(value, default) ==
    IF IsNone(value) \/ Val(value) = 0 THEN default ELSE Val(value)

\* the minimum number of candles calculate_all asks for
min_candles == 50

\* the moving averages of calculate_all: key, function and period
moving_averages ==
    { <<"sma_20", "sma", 20>>, <<"sma_50", "sma", 50>>,
      <<"sma_200", "sma", 200>>, <<"ema_9", "ema", 9>>,
      <<"ema_21", "ema", 21>>, <<"ema_55", "ema", 55>> }

\* the call calculate_all makes for a moving average
moving_average(closes, ma) ==
    IF ma[2] = "sma" THEN sma(closes, ma[3]) ELSE ema(closes, ma[3])

\* TechnicalIndicators.calculate_all: the moving averages and the current
\* price of the dictionary it returns.  The momentum, trend and volatility
\* entries are built from the highs and lows as well and have windows below
\* min_candles; they are not part of the model.
calculate_all(closes) ==
    IF Len(closes) < min_candles THEN {}
    ELSE { <<ma[1], or_default(moving_average(closes, ma), 0)>> :
             ma \in moving_averages }
           \cup {<<"current_price", closes[Len(closes)]>>}

-----------------------------------------------------------------------------
(* Inputs of the circuit-breaker and validator specifications *)

MkAccount(b, e, p) ==
    [balance |-> b, equity |-> e, realized_pnl_today |-> p,
     margin_available |-> 100, positions |-> <<>>]

\* accounts shown to the breaker: realised P&L below, at and above the 5% loss
\* line of a 10,000 starting balance; equity at and below the 15% drawdown
\* line of a 10,000 peak; an empty account
CBAccounts ==
    { MkAccount(10000, 10000, -600), MkAccount(10000, 10000, -500),
      MkAccount(10000, 10000, -400), MkAccount(10000, 10000,  600),
      MkAccount(10000,  8500, -400), MkAccount(10000,  8400, -400),
      MkAccount(10000,  8400, -600), MkAccount(10000,  8500,  600),
      MkAccount(    0,     0, -600), MkAccount(    0,     0,    0) }

\* accounts shown to validate_signal
ValidateAccounts ==
    { MkAccount(10000, 10000, -600), MkAccount(10000, 10000, -400) }

\* P&L of a closed trade: a loss, break-even, a win
TradePnls == {-50, 0, 50}

MkSignal(d, c, e, sl, tp, sz) ==
    [direction |-> d, confidence |-> c, entry_price |-> e,
     stop_loss |-> sl, take_profit |-> tp, size |-> sz]

\* signals shown to validate_signal
CBSignals ==
    { MkSignal("BUY",  70, 100,  90, 115, 10000),   \* acceptable BUY
      MkSignal("SELL", 90, 100, 110,  85, 10000),   \* acceptable SELL
      MkSignal("BUY",  50, 100,  90, 115, 10000),   \* confidence too low
      MkSignal("BUY",  70, 100,  90, 110, 10000),   \* risk:reward 1.0
      MkSignal("BUY",  70, 100, 100, 115, 10000),   \* entry = stop-loss
      MkSignal("HOLD", 70, 100, 110,  85, 10000),   \* HOLD
      MkSignal("BUY",  70,   0, -10,  15, 10000) }  \* entry price 0

NoAccount == MkAccount(0, 0, 0)

\* Candle: the fields run reads
MkCandle(l, h, c) == [low |-> l, high |-> h, close |-> c]

\* the local result of run outside the signal handling of an iteration
no_result == [signal |-> None, confidence |-> 0]

Call(op, acct, arg, ret, report) ==
    [op |-> op, acct |-> acct, arg |-> arg, ret |-> ret, report |-> report]

SetCB(cb) ==
    /\ needs_manual_reset' =
         IF cb.status = "TRIPPED" THEN TRUE
         ELSE IF lastCall'.op = "reset_breaker" /\ lastCall'.arg = 1 THEN FALSE
         ELSE needs_manual_reset
    /\ status' = cb.status
    /\ starting_balance_today' = cb.starting_balance_today
    /\ peak_equity' = cb.peak_equity
    /\ consecutive_losses' = cb.consecutive_losses
    /\ last_reset_date' = cb.last_reset_date
    /\ trip_history' = cb.trip_history
    /\ UNCHANGED notCbVars

BoolStr(b) == IF b THEN "True" ELSE "False"

-----------------------------------------------------------------------------
(* The operations of a CircuitBreaker and of the RiskValidator that owns it *)

\* CircuitBreaker.__init__ and RiskValidator.__init__
InitCB ==
    /\ status = "ACTIVE"
    /\ starting_balance_today = None
    /\ peak_equity = None
    /\ consecutive_losses = 0
    /\ last_reset_date = None
    /\ trip_history = <<>>
    /\ validation_history = <<>>
    /\ lastCall = Call("init", NoAccount, 0, "None", <<>>)
    /\ needs_manual_reset = FALSE

\* StrategyOrchestrator before the first resolve_conflicts call
InitOrch ==
    /\ results = <<>>
    /\ final_signal = None
    /\ orch_pc = "idle"

\* RiskAssessor before the first call
InitRisk ==
    /\ rk_op = "idle"
    /\ rk_signal = MkSignal("HOLD", 0, 0, 0, 0, 0)
    /\ rk_account = NoAccount
    /\ rk_result = [exc |-> "none", size |-> 0, is_valid |-> FALSE,
                    reason |-> "idle"]

\* BacktestEngine.run at its first line
InitBacktest ==
    /\ bt_pc = "loop"
    /\ bt_i = 0
    /\ bt_candle = MkCandle(0, 0, 0)
    /\ bt_balance = initial_balance
    /\ bt_position = None
    /\ bt_trades = <<>>
    /\ bt_equity_curve = <<initial_balance>>
    /\ bt_timestamps = <<0>>
    /\ bt_check = [position |-> None, closed_by |-> "none"]
    /\ bt_opened = <<>>
    /\ bt_taken = <<>>
    /\ bt_result = no_result
    /\ bt_performance = zero_metrics

\* two runs before their first line
InitReplay ==
    /\ rp_pc = "start"
    /\ rp_i = 0
    /\ rp_candle = MkCandle(0, 0, 0)
    /\ rp_a = [balance |-> initial_balance, position |-> None,
               trades |-> <<>>, equity_curve |-> <<initial_balance>>]
    /\ rp_b = rp_a
    /\ rp_sa = new_strategy
    /\ rp_sb = new_strategy
    /\ rp_fresh = TRUE

\* BreakoutStrategy.__init__: no price history, no previous position
InitBreakout ==
    /\ bo_price_history = <<>>
    /\ bo_previous_position = "none"
    /\ bo_call = [context |-> [pair |-> "BTC/USD",
                               indicator_attributes |-> FALSE,
                               current_price |-> 0,
                               volatility_percentile |-> 0],
                  previous_position |-> "none",
                  channels |-> None]
    /\ bo_result = [exc |-> "none", signal |-> None, confidence |-> 0]

\* a TrendFollowingStrategy after __init__
InitTrend ==
    /\ tf_previous = None
    /\ tf_call = [context |-> [pair |-> "EUR/USD",
                               indicator_attributes |-> FALSE,
                               current_price |-> 0, ema_9 |-> 0,
                               ema_21 |-> 0, adx_14 |-> 0, atr_14 |-> 0,
                               trend |-> "neutral"],
                  previous |-> None]
    /\ tf_result = [exc |-> "none", built |-> "none", signal |-> None,
                    confidence |-> 0]

\* no candle has been received and no indicator function has been called
InitIndicators ==
    /\ ti_closes = <<>>
    /\ ti_indicators = {}
    /\ ti_single = {}
    /\ ti_pc = "series"

\* no arguments of calculate_metrics have been put together yet
InitPerformance ==
    /\ pa_trades = <<>>
    /\ pa_equity_curve = <<>>
    /\ pa_initial_balance = 10000
    /\ pa_metrics = zero_metrics
    /\ pa_pc = "arguments"

Init ==
    InitCB /\ InitOrch /\ InitRisk /\ InitBacktest /\ InitReplay
      /\ InitBreakout /\ InitPerformance /\ InitTrend /\ InitIndicators

CheckAllConditionsOn(accounts) ==
    \E a \in accounts :
        \E r \in {check_all_conditions(CB, a)} :
            /\ Len(r.cb.trip_history) <= MaxTrips
            /\ lastCall' = Call("check_all_conditions", a, 0, BoolStr(r.ret), <<>>)
            /\ SetCB(r.cb)
            /\ UNCHANGED validation_history

RecordTradeResult ==
    \E pnl \in TradePnls :
        \E cb \in {record_trade_result(CB, pnl)} :
            /\ Len(cb.trip_history) <= MaxTrips
            /\ lastCall' = Call("record_trade_result", NoAccount, pnl, "None", <<>>)
            /\ SetCB(cb)
            /\ UNCHANGED validation_history

ResetBreaker ==
    \E manual \in BOOLEAN :
        \E r \in {reset_breaker(CB, manual)} :
            /\ lastCall' = Call("reset_breaker", NoAccount,
                                IF manual THEN 1 ELSE 0, BoolStr(r.ret), <<>>)
            /\ SetCB(r.cb)
            /\ UNCHANGED validation_history

EnableManualOverride ==
    /\ lastCall' = Call("enable_manual_override", NoAccount, 0, "None", <<>>)
    /\ SetCB(enable_manual_override(CB))
    /\ UNCHANGED validation_history

DisableManualOverride ==
    /\ lastCall' = Call("disable_manual_override", NoAccount, 0, "None", <<>>)
    /\ SetCB(disable_manual_override(CB))
    /\ UNCHANGED validation_history

\* RiskValidator.validate_signal; the log keeps of each report the fields
\* is_approved and circuit_breaker_status
ValidateSignal ==
    /\ Len(validation_history) < MaxHistory
    /\ \E sig \in CBSignals, a \in ValidateAccounts, adjust_size \in BOOLEAN :
        \E r \in {validate_signal(CB, sig, a, adjust_size)} :
            /\ Len(r.cb.trip_history) <= MaxTrips
            /\ lastCall' = Call("validate_signal", a, 0,
                                IF r.exc = "none" THEN "report" ELSE r.exc,
                                r.report)
            /\ SetCB(r.cb)
            /\ validation_history' =
                 IF r.exc = "none"
                 THEN Append(validation_history,
                             [is_approved |-> r.report[1].is_approved,
                              circuit_breaker_status |->
                                  r.report[1].circuit_breaker_status])
                 ELSE validation_history

\* RiskValidator.clear_history
ClearHistory ==
    /\ validation_history' = <<>>
    /\ lastCall' = Call("clear_history", NoAccount, 0, "None", <<>>)
    /\ UNCHANGED <<status, starting_balance_today, peak_equity,
                   consecutive_losses, last_reset_date, trip_history,
                   needs_manual_reset>>
    /\ UNCHANGED notCbVars

\* the calendar day changes: a date that was today is an earlier day now
DayRollover ==
    /\ last_reset_date' = IF last_reset_date = Some(today)
                          THEN Some("earlier") ELSE last_reset_date
    /\ lastCall' = Call("day_rollover", NoAccount, 0, "None", <<>>)
    /\ UNCHANGED <<status, starting_balance_today, peak_equity,
                   consecutive_losses, trip_history, validation_history,
                   needs_manual_reset>>
    /\ UNCHANGED notCbVars

CheckAllConditions == CheckAllConditionsOn(CBAccounts)

\* Spec: every operation of one CircuitBreaker, and the calendar
Next ==
    \/ CheckAllConditions
    \/ RecordTradeResult
    \/ ResetBreaker
    \/ EnableManualOverride
    \/ DisableManualOverride
    \/ DayRollover

Spec == Init /\ [][Next]_vars

CheckAllConditionsFew == CheckAllConditionsOn(ValidateAccounts)

\* SpecValidator: a RiskValidator and the CircuitBreaker it owns
NextValidator ==
    \/ ValidateSignal
    \/ ClearHistory
    \/ CheckAllConditionsFew
    \/ RecordTradeResult
    \/ ResetBreaker
    \/ EnableManualOverride
    \/ DisableManualOverride
    \/ DayRollover

SpecValidator == Init /\ [][NextValidator]_vars

-----------------------------------------------------------------------------
(* The strategy orchestrator *)

\* confidences a strategy reports
Confidences == {70, 90}

\* what one strategy hands back: no signal, or a signal with a direction, the
\* signal's confidence and the confidence of the StrategyResult
ResultShapes ==
    {<<"NONE", 0, 0>>}
      \cup ({"BUY", "SELL", "HOLD"} \X Confidences \X Confidences)

\* the result of strategy number i: its prices are its own, so that the
\* signals of different strategies differ
MkResult(i, shape) ==
    [signal |->
        IF shape[1] = "NONE" THEN None
        ELSE Some(MkSignal(shape[1], shape[2], 100 + i,
                           IF shape[1] = "SELL" THEN 110 + i ELSE 90 - i,
                           IF shape[1] = "SELL" THEN 80 - i ELSE 120 + i,
                           10000)),
     confidence |-> shape[3]]

\* the results of strategies 1..n
RECURSIVE MkResults(_, _)
MkResults(shapes, n) ==
    IF n = 0 THEN <<>>
    ELSE Append(MkResults(shapes, n - 1), MkResult(n, shapes[n]))

\* StrategyOrchestrator.run_strategies: the results of one decision cycle
RunStrategies ==
    /\ orch_pc = "idle"
    /\ \E n \in 0..MaxResults :
        \E shapes \in [1..n -> ResultShapes] :
            results' = MkResults(shapes, n)
    /\ orch_pc' = "ran"
    /\ UNCHANGED final_signal
    /\ UNCHANGED <<cbVars, riskVars, btVars, laterVars>>

\* StrategyOrchestrator.resolve_conflicts on these results
ResolveConflicts ==
    /\ orch_pc = "ran"
    /\ final_signal' = resolve_conflicts(results)
    /\ orch_pc' = "resolved"
    /\ UNCHANGED results
    /\ UNCHANGED <<cbVars, riskVars, btVars, laterVars>>

\* the decision cycle ends; the orchestrator keeps nothing of it
NextCycle ==
    /\ orch_pc = "resolved"
    /\ results' = <<>>
    /\ final_signal' = None
    /\ orch_pc' = "idle"
    /\ UNCHANGED <<cbVars, riskVars, btVars, laterVars>>

NextOrch ==
    \/ RunStrategies
    \/ ResolveConflicts
    \/ NextCycle

SpecOrch == Init /\ [][NextOrch]_vars

-----------------------------------------------------------------------------
(* The risk assessor *)

\* account balances, entry prices and stop distances shown to
\* calculate_position_size
SizingBalances == {500, 1000, 10000}
SizingEntries == {100, 29900, 50000}
SizingStopDistances == {0, 10, 300, 5000}

SizingSignals ==
    { s \in { MkSignal(d, 70, e, IF d = "BUY" THEN e - dist ELSE e + dist,
                        e, 10000) :
                d \in {"BUY", "SELL"}, e \in SizingEntries,
                dist \in SizingStopDistances } :
        s.stop_loss >= 0 }

\* RiskAssessor.calculate_position_size
CalculatePositionSize ==
    \E sig \in SizingSignals, b \in SizingBalances :
        \E r \in {calculate_position_size(sig, MkAccount(b, b, 0))} :
            /\ rk_op' = "calculate_position_size"
            /\ rk_signal' = sig
            /\ rk_account' = MkAccount(b, b, 0)
            /\ rk_result' = [exc |-> r.exc, size |-> r.size,
                             is_valid |-> FALSE, reason |-> "n/a"]
            /\ UNCHANGED <<cbVars, orchVars, btVars, laterVars>>

\* balances of the accounts shown to adjust_signal_for_risk
AdjustBalances == {1, 1000}

\* RiskAssessor.adjust_signal_for_risk, as validate_signal calls it when
\* adjust_size is set
AdjustSignalForRisk ==
    \E sig \in SizingSignals, b \in AdjustBalances :
        \E r \in {adjust_signal_for_risk(sig, MkAccount(b, b, 0))} :
            /\ rk_op' = "adjust_signal_for_risk"
            /\ rk_signal' = sig
            /\ rk_account' = MkAccount(b, b, 0)
            /\ rk_result' = [exc |-> r.exc,
                             size |-> IF r.exc = "none" THEN r.signal.size
                                      ELSE 0,
                             is_valid |-> FALSE,
                             reason |-> IF r.exc = "none" THEN "adjusted"
                                        ELSE "raised"]
            /\ UNCHANGED <<cbVars, orchVars, btVars, laterVars>>

\* entry prices and ATR values handed to calculate_stop_loss, in units of
\* 0.00001: 0.001, 0.01 and 1.08345 with an ATR of 0.00001 up to 0.004
LevelEntries == {100, 1000, 108345}

LevelAtrs == {1, 40, 123, 400}

\* a caller derives both levels of a signal: calculate_stop_loss, then
\* calculate_take_profit on its result, then validate_trade on the signal
\* that carries the two levels (size 0.0001, an account of 100,000)
CalculateLevels ==
    \E e \in LevelEntries, atr \in LevelAtrs, d \in {"BUY", "SELL", "HOLD"} :
        LET sl  == calculate_stop_loss(e, atr, d)
            tp  == calculate_take_profit(e, sl.level, d)
            exc == IF sl.exc # "none" THEN sl.exc ELSE tp.exc
            sig == MkSignal(d, 70, e, sl.level,
                            IF exc = "none" THEN tp.level ELSE 0, 1)
            a   == MkAccount(100000, 100000, 0)
            r   == validate_trade(sig, a)
        IN  /\ rk_op' = "calculate_levels"
            /\ rk_signal' = sig
            /\ rk_account' = a
            /\ rk_result' =
                 IF exc # "none"
                 THEN [exc |-> exc, size |-> 0, is_valid |-> FALSE,
                       reason |-> "raised"]
                 ELSE [exc |-> r.exc, size |-> 0, is_valid |-> r.is_valid,
                       reason |-> r.reason]
            /\ UNCHANGED <<cbVars, orchVars, btVars, laterVars>>

\* signals shown to validate_trade: entry 100, the stop-loss and the
\* take-profit below, at and above it, sizes 1.0, 20.0 and 30.0
TradeSignals ==
    { MkSignal(d, 70, 100, sl, tp, sz) :
        d \in {"BUY", "SELL", "HOLD"}, sl \in {90, 100, 110},
        tp \in {80, 90, 100, 110, 120}, sz \in {10000, 200000, 300000} }

\* Position: the fields validate_trade reads
MkPosition(sz, price) == [size |-> sz, current_price |-> price]

\* accounts shown to validate_trade: with and without an open position of
\* 60.0 at 100, much and little free margin
TradeAccounts ==
    { [MkAccount(b, b, 0) EXCEPT !.margin_available = m, !.positions = ps] :
        b \in {1000, 10000}, m \in {10, 100},
        ps \in {<<>>, <<MkPosition(600000, 100)>>} }

\* RiskAssessor.validate_trade
ValidateTrade ==
    \E sig \in TradeSignals, a \in TradeAccounts :
        \E r \in {validate_trade(sig, a)} :
            /\ rk_op' = "validate_trade"
            /\ rk_signal' = sig
            /\ rk_account' = a
            /\ rk_result' = [exc |-> r.exc, size |-> 0,
                             is_valid |-> r.is_valid, reason |-> r.reason]
            /\ UNCHANGED <<cbVars, orchVars, btVars, laterVars>>

NextRisk ==
    \/ CalculatePositionSize
    \/ ValidateTrade
    \/ CalculateLevels
    \/ AdjustSignalForRisk

SpecRisk == Init /\ [][NextRisk]_vars

-----------------------------------------------------------------------------
(* The backtest engine *)

\* candles of the historical data: two closing prices, the low at the close
\* or 6.00 below it, the high at the close or 11.00 above it
Candles ==
    { MkCandle(c - dl, c + dh, c) :
        c \in {10000, 10100}, dl \in {0, 600}, dh \in {0, 1100} }

\* what config.strategy.analyze returns on a candle: no signal, or a signal
\* with the stop-loss 5.00 and the take-profit 10.00 away from the close
StrategyOutputs(candle) ==
    { [signal |-> None, confidence |-> 0],
      [signal |-> Some(MkSignal("BUY", 70, candle.close, candle.close - 500,
                                candle.close + 1000, 10000)),
       confidence |-> 70],
      [signal |-> Some(MkSignal("SELL", 70, candle.close, candle.close + 500,
                                candle.close - 1000, 10000)),
       confidence |-> 70],
      [signal |-> Some(MkSignal("BUY", 50, candle.close, candle.close - 500,
                                candle.close + 1000, 10000)),
       confidence |-> 50],
      \* a signal whose take-profit is as far away as its stop-loss
      [signal |-> Some(MkSignal("BUY", 70, candle.close, candle.close - 500,
                                candle.close + 500, 10000)),
       confidence |-> 70] }

\* historical_data is empty: historical_data[0] raises
EmptyData ==
    /\ bt_pc = "loop"
    /\ bt_i = 0
    /\ bt_pc' = "IndexError"
    /\ UNCHANGED <<bt_i, bt_candle, bt_balance, bt_position, bt_trades,
                   bt_equity_curve, bt_check, bt_opened, bt_taken,
                   bt_result, bt_performance, bt_timestamps>>
    /\ UNCHANGED <<cbVars, orchVars, riskVars, laterVars>>

\* one iteration of the loop with i < 50
WarmUp ==
    /\ bt_pc = "loop"
    /\ bt_i < warmup
    /\ bt_i < MaxCandles
    /\ \E candle \in Candles : bt_candle' = candle
    /\ bt_i' = bt_i + 1
    /\ UNCHANGED <<bt_pc, bt_balance, bt_position, bt_trades,
                   bt_equity_curve, bt_check, bt_opened, bt_taken,
                   bt_result, bt_performance, bt_timestamps>>
    /\ UNCHANGED <<cbVars, orchVars, riskVars, laterVars>>

\* one iteration with i >= 50, up to the stop-loss / take-profit check:
\* the strategy is asked, an opposite position is closed at the close of the
\* candle, and a position is opened when none is open
StrategySignal ==
    /\ bt_pc = "loop"
    /\ bt_i >= warmup
    /\ bt_i < MaxCandles
    /\ \E candle \in Candles :
        \E result \in StrategyOutputs(candle) :
            /\ bt_candle' = candle
            /\ bt_result' = result
            /\ IF ~IsNone(result.signal) /\ result.confidence >= min_confidence
               THEN LET signal   == Val(result.signal)
                        opposite == /\ ~IsNone(bt_position)
                                    /\ opposite_direction(Val(bt_position),
                                                          signal)
                        trade    == close_position(Val(bt_position),
                                                   candle.close, bt_i)
                        balance1 == IF opposite THEN add_pnl(bt_balance, trade)
                                    ELSE bt_balance
                    IN  /\ bt_trades' = IF opposite
                                        THEN Append(bt_trades, trade)
                                        ELSE bt_trades
                        /\ bt_balance' = balance1
                        /\ bt_position' =
                             IF opposite \/ IsNone(bt_position)
                             THEN Some(open_position(signal, candle.close,
                                                     bt_i, balance1))
                             ELSE bt_position
                        /\ bt_opened' =
                             IF opposite \/ IsNone(bt_position)
                             THEN Append(bt_opened, Val(bt_position'))
                             ELSE bt_opened
                        /\ bt_taken' =
                             IF opposite \/ IsNone(bt_position)
                             THEN Append(bt_taken, [signal  |-> signal,
                                                    balance |-> balance1])
                             ELSE bt_taken
               ELSE UNCHANGED <<bt_trades, bt_balance, bt_position,
                                bt_opened, bt_taken>>
    /\ bt_pc' = "check"
    /\ UNCHANGED <<bt_i, bt_equity_curve, bt_check, bt_performance,
                   bt_timestamps>>
    /\ UNCHANGED <<cbVars, orchVars, riskVars, laterVars>>

\* the rest of the iteration: the stop-loss / take-profit check and the
\* equity curve
CheckStops ==
    /\ bt_pc = "check"
    /\ IF IsNone(bt_position)
       THEN /\ bt_check' = [position |-> None, closed_by |-> "none"]
            /\ UNCHANGED <<bt_trades, bt_balance, bt_position>>
       ELSE LET position == Val(bt_position)
                branch   == check_stops(position, bt_candle)
                trade    == close_position(
                                position,
                                IF branch = "stop_loss"
                                THEN position.stop_loss
                                ELSE position.take_profit,
                                bt_i)
            IN  /\ bt_check' = [position |-> bt_position, closed_by |-> branch]
                /\ IF branch = "none"
                   THEN UNCHANGED <<bt_trades, bt_balance, bt_position>>
                   ELSE /\ bt_trades' = Append(bt_trades, trade)
                        /\ bt_balance' = add_pnl(bt_balance, trade)
                        /\ bt_position' = None
    /\ bt_equity_curve' =
         Append(bt_equity_curve,
                current_equity(bt_balance', bt_position', bt_candle))
    /\ bt_timestamps' = Append(bt_timestamps, bt_i)
    /\ bt_i' = bt_i + 1
    /\ bt_pc' = "loop"
    /\ bt_result' = no_result
    /\ UNCHANGED <<bt_candle, bt_opened, bt_taken, bt_performance>>
    /\ UNCHANGED <<cbVars, orchVars, riskVars, laterVars>>

\* the data is exhausted: a remaining position is closed at the close of the
\* last candle, the metrics are calculated and the result is returned
Finish ==
    /\ bt_pc = "loop"
    /\ bt_i >= 1
    /\ IF IsNone(bt_position)
       THEN UNCHANGED <<bt_trades, bt_balance>>
       ELSE LET trade == close_position(Val(bt_position), bt_candle.close,
                                        bt_i - 1)
            IN  /\ bt_trades' = Append(bt_trades, trade)
                /\ bt_balance' = add_pnl(bt_balance, trade)
    /\ bt_performance' = calculate_metrics(bt_trades', bt_equity_curve,
                                           initial_balance)
    /\ bt_pc' = "done"
    /\ UNCHANGED <<bt_i, bt_candle, bt_position, bt_equity_curve, bt_check,
                   bt_opened, bt_taken, bt_result, bt_timestamps>>
    /\ UNCHANGED <<cbVars, orchVars, riskVars, laterVars>>

NextBacktest ==
    \/ EmptyData
    \/ WarmUp
    \/ StrategySignal
    \/ CheckStops
    \/ Finish

SpecBacktest == Init /\ [][NextBacktest]_vars

-----------------------------------------------------------------------------
(* Two runs of the backtest engine on the same configuration and candles *)

\* candles of the two runs: one closing price, the low at the close or 6.00
\* below it, the high at the close or 11.00 above it
ReplayCandles ==
    { MkCandle(10000 - dl, 10000 + dh, 10000) :
        dl \in {0, 600}, dh \in {0, 1100} }

\* what config.strategy.analyze returns on a candle: no signal, a BUY or a
\* SELL
ReplayOutputs(candle) ==
    { r \in StrategyOutputs(candle) : r.confidence # 50 }

notRpVars == <<cbVars, orchVars, riskVars, btVars, boVars, paVars, moreVars>>

\* the configurations are built: the first run gets a new strategy object,
\* the second a new one or one that was used before
ReplayStart ==
    /\ rp_pc = "start"
    /\ \E fresh \in BOOLEAN :
        /\ rp_fresh' = fresh
        /\ rp_sb' = strategy_of_second_run(fresh)
    /\ rp_pc' = "loop"
    /\ UNCHANGED <<rp_i, rp_candle, rp_a, rp_b, rp_sa>>
    /\ UNCHANGED notRpVars

\* both runs skip a candle with i < 50
ReplayWarmUp ==
    /\ rp_pc = "loop"
    /\ rp_i < warmup
    /\ rp_i < MaxReplayCandles
    /\ \E candle \in ReplayCandles : rp_candle' = candle
    /\ rp_i' = rp_i + 1
    /\ UNCHANGED <<rp_pc, rp_a, rp_b, rp_sa, rp_sb, rp_fresh>>
    /\ UNCHANGED notRpVars

\* both runs process the same candle with i >= 50; each asks its strategy
ReplayIteration ==
    /\ rp_pc = "loop"
    /\ rp_i >= warmup
    /\ rp_i < MaxReplayCandles
    /\ \E candle \in ReplayCandles :
        \E ra \in ReplayOutputs(candle) :
            \E rb \in ReplayOutputs(candle) :
                LET ca == market_context(candle, rp_a.balance)
                    cb == market_context(candle, rp_b.balance)
                IN  /\ same_analysis(rp_sa, ca, rp_sb, cb) => rb = ra
                    /\ rp_candle' = candle
                    /\ rp_a' = run_iteration(rp_a, candle, ra, rp_i)
                    /\ rp_b' = run_iteration(rp_b, candle, rb, rp_i)
                    /\ rp_sa' = [rp_sa EXCEPT !.seen = Append(@, ca)]
                    /\ rp_sb' = [rp_sb EXCEPT !.seen = Append(@, cb)]
    /\ rp_i' = rp_i + 1
    /\ UNCHANGED <<rp_pc, rp_fresh>>
    /\ UNCHANGED notRpVars

\* the data is exhausted in both runs
ReplayFinish ==
    /\ rp_pc = "loop"
    /\ rp_i >= 1
    /\ rp_a' = run_finish(rp_a, rp_candle, rp_i - 1)
    /\ rp_b' = run_finish(rp_b, rp_candle, rp_i - 1)
    /\ rp_pc' = "done"
    /\ UNCHANGED <<rp_i, rp_candle, rp_sa, rp_sb, rp_fresh>>
    /\ UNCHANGED notRpVars

NextReplay ==
    \/ ReplayStart
    \/ ReplayWarmUp
    \/ ReplayIteration
    \/ ReplayFinish

SpecReplay == Init /\ [][NextReplay]_vars

-----------------------------------------------------------------------------
(* Claims about the circuit breaker *)

LastAcct == lastCall.acct

\* the day's starting balance a check_all_conditions(a) call made now works with
DayStartingBalance(a) ==
    IF last_reset_date = Some(today) /\ ~IsNone(starting_balance_today)
    THEN Val(starting_balance_today) ELSE a.balance
\* the peak equity, the equity of a included
PeakWith(a) ==
    IF IsNone(peak_equity) \/ a.equity > Val(peak_equity)
    THEN a.equity ELSE Val(peak_equity)
\* the consecutive losses of the current day
LossesOfToday ==
    IF last_reset_date = Some(today) THEN consecutive_losses ELSE 0

\* the three trip conditions; a fraction of a balance or of a peak is defined
\* for a positive balance or peak only
DailyLossExceeded(a) ==
    /\ DayStartingBalance(a) > 0
    /\ (0 - a.realized_pnl_today) * 100 > max_daily_loss * DayStartingBalance(a)
DrawdownExceeded(a) ==
    /\ PeakWith(a) > 0
    /\ (PeakWith(a) - a.equity) * 100 > max_drawdown * PeakWith(a)
LossCountReached == LossesOfToday >= max_consecutive_losses

TripConditionHolds(a) ==
    DailyLossExceeded(a) \/ DrawdownExceeded(a) \/ LossCountReached

C2_ActiveOnlyAfterManualReset ==
    needs_manual_reset => status # "ACTIVE"

\* C2, second half of the claim: reset_breaker(manual=False) on a TRIPPED
\* breaker returns False and changes nothing
C2_AutomaticResetRefused ==
    [][ (status = "TRIPPED" /\ lastCall'.op = "reset_breaker"
         /\ lastCall'.arg = 0) =>
          /\ lastCall'.ret = "False"
          /\ UNCHANGED <<status, starting_balance_today, peak_equity,
                         consecutive_losses, last_reset_date, trip_history>>
      ]_vars

\* C4 (as claimed): every calendar-day rollover resets the daily tracking and
\* clears no TRIPPED status:
\*  (1) a check_all_conditions call that evaluates the conditions after the
\*      day has changed works with the account's balance of the new day as
\*      starting balance and with a loss counter of 0;
\*  (2) the first loss recorded after the day has changed is loss number 1;
\*  (3) the change of day leaves the status as it is
C4_RolloverResetsDailyTracking ==
    [][ /\ (status = "ACTIVE" /\ lastCall'.op = "check_all_conditions"
            /\ last_reset_date = Some("earlier"))
             => /\ starting_balance_today' = Some(lastCall'.acct.balance)
                /\ last_reset_date' = Some(today)
                /\ (lastCall'.ret = "True" => consecutive_losses' = 0)
        /\ (lastCall.op = "day_rollover" /\ lastCall'.op = "record_trade_result"
            /\ lastCall'.arg < 0)
             => consecutive_losses' = 1
        /\ lastCall'.op = "day_rollover" => status' = status ]_vars

\* C5: record_trade_result(pnl) sets the loss counter to 0 for a trade that
\* is not a loss (pnl >= 0) and to its previous value plus one for a loss,
\* and the status is TRIPPED on return when the counter has reached 5
C5_RecordTradeResultCounts ==
    [][ lastCall'.op = "record_trade_result" =>
          /\ consecutive_losses' =
               IF lastCall'.arg < 0 THEN consecutive_losses + 1 ELSE 0
          /\ (consecutive_losses' >= max_consecutive_losses
                => status' = "TRIPPED") ]_vars

\* C5 witness: the fifth loss in a row has tripped the breaker
C5_Witness ==
    /\ lastCall.op = "record_trade_result"
    /\ lastCall.arg < 0
    /\ consecutive_losses = max_consecutive_losses
    /\ status = "TRIPPED"
    /\ trip_history = <<"Maximum consecutive losses reached">>

-----------------------------------------------------------------------------
(* Claims about the validator *)

\* C3: while the status is TRIPPED check_all_conditions returns False, and
\* every report of validate_signal is rejected; every approved report, the
\* logged ones included, carries a circuit_breaker_status other than TRIPPED
C3_TrippedVetoesEverything ==
    [][ /\ (status = "TRIPPED" /\ lastCall'.op = "check_all_conditions")
             => (lastCall'.ret = "False" /\ status' = "TRIPPED")
        /\ (lastCall'.op = "validate_signal" /\ lastCall'.ret = "report")
             => /\ status = "TRIPPED" => ~lastCall'.report[1].is_approved
                /\ lastCall'.report[1].is_approved
                     => lastCall'.report[1].circuit_breaker_status # "TRIPPED"
        /\ \A i \in DOMAIN validation_history' :
             validation_history'[i].is_approved
               => validation_history'[i].circuit_breaker_status # "TRIPPED"
      ]_vars

\* C3 witness: a signal that passes every other check, validated against an
\* account that trips nothing, is rejected for the tripped breaker alone
C3_Witness ==
    /\ lastCall.op = "validate_signal"
    /\ lastCall.ret = "report"
    /\ LastAcct.realized_pnl_today = -400
    /\ LastAcct.balance = 10000
    /\ consecutive_losses < max_consecutive_losses
    /\ status = "TRIPPED"
    /\ ~lastCall.report[1].is_approved
    /\ lastCall.report[1].rejection_reasons = <<"circuit_breaker">>

-----------------------------------------------------------------------------
(* Claims about the strategy orchestrator *)

NonNull == signals_with_results(results)

HasDirection(d) ==
    \E i \in 1..Len(NonNull) : Val(NonNull[i].signal).direction = d

AllOfDirection(d) ==
    \A i \in 1..Len(NonNull) : Val(NonNull[i].signal).direction = d

\* C6: resolve_conflicts returns None when the non-null signals hold a BUY and
\* a SELL, whatever their number and confidences, returns None when there is
\* no non-null signal, and returns the signal itself when there is exactly one
C6_ConflictMeansNoTrade ==
    orch_pc = "resolved" =>
        /\ (HasDirection("BUY") /\ HasDirection("SELL")) => final_signal = None
        /\ Len(NonNull) = 0 => final_signal = None
        /\ Len(NonNull) = 1 => final_signal = NonNull[1].signal

\* a BUY at 0.7 and a SELL at 0.9 were resolved to no trade
C6_Witness ==
    /\ orch_pc = "resolved"
    /\ Len(NonNull) = 2
    /\ \E i, j \in 1..2 :
          /\ Val(NonNull[i].signal).direction = "BUY"
          /\ Val(NonNull[i].signal).confidence = 70
          /\ NonNull[i].confidence = 70
          /\ Val(NonNull[j].signal).direction = "SELL"
          /\ Val(NonNull[j].signal).confidence = 90
          /\ NonNull[j].confidence = 90
    /\ final_signal = None

-----------------------------------------------------------------------------
(* Claims about the risk assessor *)

\* C8 (as claimed): for every balance, entry price and stop-loss the size
\* calculate_position_size returns is at most
\* balance * max_position_size / entry_price, also when entry_price equals
\* stop_loss.  Sizes are in units of 0.0001, the quotient is cross-multiplied,
\* and half a unit is allowed for the final round(position_size, 4).
C8_SizeWithinAccountCap ==
    rk_op = "calculate_position_size" =>
        /\ rk_result.exc = "none"
        /\ 2 * rk_result.size * rk_signal.entry_price
             <= 2 * rk_account.balance * max_position_size * size_per_pct
                  + rk_signal.entry_price

\* calculate_position_size was called with entry_price = stop_loss and
\* returned the fallback size without raising
C8_FallbackReturned ==
    /\ rk_op = "calculate_position_size"
    /\ rk_signal.entry_price = rk_signal.stop_loss
    /\ rk_result.exc = "none"
    /\ rk_result.size = fallback_size

\* the six checks of validate_trade, each on its own
FailsRiskReward ==
    LET risk   == IF rk_signal.direction = "BUY"
                  THEN rk_signal.entry_price - rk_signal.stop_loss
                  ELSE rk_signal.stop_loss - rk_signal.entry_price
        reward == IF rk_signal.direction = "BUY"
                  THEN rk_signal.take_profit - rk_signal.entry_price
                  ELSE rk_signal.entry_price - rk_signal.take_profit
    IN  risk <= 0 \/ 10 * reward < min_risk_reward * risk

FailsSizeCap ==
    rk_signal.size * rk_signal.entry_price
      > rk_account.balance * max_position_size * size_per_pct

FailsExposure ==
    SumExposure(rk_account.positions) + rk_signal.size * rk_signal.entry_price
      > rk_account.balance * max_exposure_pct * size_per_pct

FailsStopSide ==
    \/ rk_signal.direction = "BUY" /\ rk_signal.stop_loss >= rk_signal.entry_price
    \/ rk_signal.direction = "SELL" /\ rk_signal.stop_loss <= rk_signal.entry_price

FailsTargetSide ==
    \/ rk_signal.direction = "BUY" /\ rk_signal.take_profit <= rk_signal.entry_price
    \/ rk_signal.direction = "SELL" /\ rk_signal.take_profit >= rk_signal.entry_price

FailsMargin ==
    rk_signal.size * rk_signal.entry_price * margin_pct
      > rk_account.margin_available * 100 * size_scale

\* the reason of the first failing check in the order (a) .. (f)
FirstFailing ==
    IF FailsRiskReward THEN {"risk_reward"}
    ELSE IF FailsSizeCap THEN {"position_size"}
    ELSE IF FailsExposure THEN {"exposure"}
    ELSE IF FailsStopSide THEN {"stop_loss_buy", "stop_loss_sell"}
    ELSE IF FailsTargetSide THEN {"take_profit_buy", "take_profit_sell"}
    ELSE IF FailsMargin THEN {"margin"}
    ELSE {"passed"}

\* C9: validate_trade returns is_valid = false exactly when at least one of
\* the six checks fails, and its reason is that of the first failing check in
\* the order risk:reward, size cap, exposure, stop-loss side, take-profit
\* side, margin
C9_FirstFailingCheckIsReported ==
    rk_op = "validate_trade" =>
        /\ rk_result.exc = "none"
        /\ rk_result.is_valid
             = ~(FailsRiskReward \/ FailsSizeCap \/ FailsExposure
                 \/ FailsStopSide \/ FailsTargetSide \/ FailsMargin)
        /\ rk_result.reason \in FirstFailing

\* a trade that fails the size cap, the exposure limit and the margin check
\* at once was rejected for its size
C9_Witness ==
    /\ rk_op = "validate_trade"
    /\ ~FailsRiskReward
    /\ FailsSizeCap /\ FailsExposure /\ FailsMargin
    /\ ~rk_result.is_valid
    /\ rk_result.reason = "position_size"

-----------------------------------------------------------------------------
(* Claims about the backtest engine *)

StopBreached(position, candle) ==
    \/ position.direction = "BUY" /\ candle.low <= position.stop_loss
    \/ position.direction = "SELL" /\ candle.high >= position.stop_loss

TargetBreached(position, candle) ==
    \/ position.direction = "BUY" /\ candle.high >= position.take_profit
    \/ position.direction = "SELL" /\ candle.low <= position.take_profit

LastTrade == bt_trades[Len(bt_trades)]

\* the trade appended by the step is the close of position p at level on the
\* current candle: the exit price is the level moved against the trader by
\* the slippage
ClosedAt(p, level) ==
    /\ bt_position' = None
    /\ bt_trades' = Append(bt_trades, bt_trades'[Len(bt_trades')])
    /\ bt_trades'[Len(bt_trades')].exit_time = bt_i
    /\ bt_trades'[Len(bt_trades')].entry_time = p.opened_at
    /\ bt_trades'[Len(bt_trades')].direction = p.direction
    /\ bt_trades'[Len(bt_trades')].exit_price
         = slipped(level, p.direction # "BUY")

\* C10: on every candle after the warm-up the stop-loss / take-profit check
\* closes an open BUY position when low <= stop_loss or high >= take_profit,
\* and an open SELL position when high >= stop_loss or low <= take_profit,
\* whether or not the candle brought a signal; it closes at most once, at the
\* breached level, at the stop-loss when both levels are breached; otherwise
\* it leaves the position and the trades as they are
C10_StopsCheckedOnEveryCandle ==
    [][ bt_pc = "check" =>
          /\ bt_i >= warmup
          /\ Len(bt_trades') <= Len(bt_trades) + 1
          /\ IF IsNone(bt_position)
             THEN bt_trades' = bt_trades /\ bt_position' = None
             ELSE IF StopBreached(Val(bt_position), bt_candle)
             THEN ClosedAt(Val(bt_position), Val(bt_position).stop_loss)
             ELSE IF TargetBreached(Val(bt_position), bt_candle)
             THEN ClosedAt(Val(bt_position), Val(bt_position).take_profit)
             ELSE bt_trades' = bt_trades /\ bt_position' = bt_position ]_vars

\* a position that was opened on an earlier candle was closed at its
\* stop-loss by a candle that breached both its stop-loss and its take-profit
C10_Witness ==
    /\ bt_pc = "loop"
    /\ bt_i > warmup
    /\ ~IsNone(bt_check.position)
    /\ Val(bt_check.position).opened_at < bt_i - 1
    /\ StopBreached(Val(bt_check.position), bt_candle)
    /\ TargetBreached(Val(bt_check.position), bt_candle)
    /\ bt_check.closed_by = "stop_loss"
    /\ IsNone(bt_position)
    /\ LastTrade.exit_time = bt_i - 1
    /\ LastTrade.exit_price
         = slipped(Val(bt_check.position).stop_loss,
                   Val(bt_check.position).direction # "BUY")

\* the trade at place k of the trade list closes the position opened k-th:
\* the same entry time, entry price, direction and size, and an exit that is
\* not before the entry
TradeOfOpened(k) ==
    /\ bt_trades[k].entry_time = bt_opened[k].opened_at
    /\ bt_trades[k].entry_price = bt_opened[k].entry_price
    /\ bt_trades[k].direction = bt_opened[k].direction
    /\ bt_trades[k].size = bt_opened[k].size
    /\ bt_trades[k].exit_time >= bt_trades[k].entry_time
    /\ bt_trades[k].exit_time <= bt_i
    /\ bt_trades[k].exit_price > 0

\* C11: while run is in its loop every opened position but the open one has
\* its trade; when run has returned every position that was opened has
\* exactly one trade, in the order of opening, and a position that was still
\* open after the last candle was closed at the timestamp of the final candle
\* and at its close, moved against the trader by the slippage
C11_NoPositionLeftOpen ==
    /\ bt_pc \in {"loop", "check"} =>
          /\ Len(bt_opened)
               = Len(bt_trades) + (IF IsNone(bt_position) THEN 0 ELSE 1)
          /\ \A k \in 1..Len(bt_trades) : TradeOfOpened(k)
          /\ ~IsNone(bt_position) =>
                Val(bt_position) = bt_opened[Len(bt_opened)]
    /\ bt_pc = "done" =>
          /\ Len(bt_trades) = Len(bt_opened)
          /\ \A k \in 1..Len(bt_trades) : TradeOfOpened(k)
          /\ \A k, l \in 1..Len(bt_trades) :
                k < l => bt_trades[k].entry_time < bt_trades[l].entry_time
          /\ \A k \in 1..Len(bt_trades) : bt_trades[k].exit_time < bt_i
          /\ ~IsNone(bt_position) =>
                /\ LastTrade.entry_time = Val(bt_position).opened_at
                /\ LastTrade.exit_time = bt_i - 1
                /\ LastTrade.exit_price
                     = slipped(bt_candle.close,
                               Val(bt_position).direction # "BUY")

\* run has returned after a position that was opened before the final candle
\* and survived it was closed by the end of the data, as the second trade
C11_Witness ==
    /\ bt_pc = "done"
    /\ ~IsNone(bt_position)
    /\ Val(bt_position).opened_at < bt_i - 1
    /\ Len(bt_trades) = 2
    /\ Len(bt_opened) = 2
    /\ LastTrade.exit_time = bt_i - 1
    /\ LastTrade.exit_price # Val(bt_position).stop_loss
    /\ LastTrade.exit_price # Val(bt_position).take_profit

-----------------------------------------------------------------------------
(* The breakout strategy *)

\* prices of the instrument
BreakoutPrices == {100, 110, 112, 130}

\* contexts handed to analyze: BTC/USD with the indicators as attributes
\* and a volatility percentile of 40 or 80; BTC/USD as the MarketContext
\* dataclass, which keeps the indicators in a dict; an unsupported pair
BreakoutContexts ==
    { [pair |-> "BTC/USD", indicator_attributes |-> TRUE,
       current_price |-> p, volatility_percentile |-> v] :
          p \in BreakoutPrices, v \in {40, 80} }
    \cup
    { [pair |-> "BTC/USD", indicator_attributes |-> FALSE,
       current_price |-> 130, volatility_percentile |-> 80],
      [pair |-> "EUR/USD", indicator_attributes |-> TRUE,
       current_price |-> 130, volatility_percentile |-> 80] }

\* one call of BreakoutStrategy.analyze
BreakoutAnalyze ==
    /\ Len(bo_price_history) < MaxAnalyses
    /\ \E context \in BreakoutContexts :
        LET st == [price_history |-> bo_price_history,
                   previous_position |-> bo_previous_position]
            r  == breakout_analyze(st, context)
        IN  /\ bo_price_history' = r.st.price_history
            /\ bo_previous_position' = r.st.previous_position
            /\ bo_call' = [context |-> context,
                           previous_position |-> bo_previous_position,
                           channels |->
                             IF validate_context(context, breakout_pairs)
                             THEN calculate_donchian_channels(
                                      r.st.price_history)
                             ELSE None]
            /\ bo_result' = [exc |-> r.exc, signal |-> r.signal,
                             confidence |-> r.confidence]
    /\ UNCHANGED <<cbVars, orchVars, riskVars, btVars, rpVars, paVars,
                   moreVars>>

NextBreakout ==
    \/ BreakoutAnalyze

SpecBreakout == Init /\ [][NextBreakout]_vars

-----------------------------------------------------------------------------
(* The performance analyzer *)

\* equity values of the curves handed to calculate_metrics
EquityValues == {9000, 10000, 11000, 12000}

\* trades handed to calculate_metrics: a loss, a break-even and a win
PerfTrades ==
    { [entry_time |-> 0, exit_time |-> 2, pnl |-> -50],
      [entry_time |-> 0, exit_time |-> 1, pnl |-> 0],
      [entry_time |-> 1, exit_time |-> 4, pnl |-> 80] }

notPaVars == <<cbVars, orchVars, riskVars, btVars, rpVars, boVars, moreVars>>

\* the caller appends a point to the equity curve
AddEquityPoint ==
    /\ pa_pc = "arguments"
    /\ Len(pa_equity_curve) < MaxCurve
    /\ \E e \in EquityValues : pa_equity_curve' = Append(pa_equity_curve, e)
    /\ UNCHANGED <<pa_trades, pa_initial_balance, pa_metrics, pa_pc>>
    /\ UNCHANGED notPaVars

\* the caller appends a trade to the trade list
AddTrade ==
    /\ pa_pc = "arguments"
    /\ Len(pa_trades) < MaxPerfTrades
    /\ \E t \in PerfTrades : pa_trades' = Append(pa_trades, t)
    /\ UNCHANGED <<pa_equity_curve, pa_initial_balance, pa_metrics, pa_pc>>
    /\ UNCHANGED notPaVars

\* calculate_metrics(trades, equity_curve, initial_balance); with trades the
\* curve has at least one point
CalculateMetrics ==
    /\ pa_pc = "arguments"
    /\ pa_trades # <<>> => pa_equity_curve # <<>>
    /\ \E b \in {5000, 10000} :
        /\ pa_initial_balance' = b
        /\ pa_metrics' = calculate_metrics(pa_trades, pa_equity_curve, b)
    /\ pa_pc' = "returned"
    /\ UNCHANGED <<pa_trades, pa_equity_curve>>
    /\ UNCHANGED notPaVars

NextPerformance ==
    \/ AddEquityPoint
    \/ AddTrade
    \/ CalculateMetrics

SpecPerformance == Init /\ [][NextPerformance]_vars

-----------------------------------------------------------------------------
(* The trend-following strategy *)

\* contexts handed to analyze: EUR/USD with the indicators as attributes,
\* the fast EMA below, at and above the slow one, the ADX below, at and
\* above the threshold; EUR/USD as the MarketContext dataclass, which keeps
\* the indicators in a dict; an unsupported pair
TrendContexts ==
    { [pair |-> "EUR/USD", indicator_attributes |-> TRUE,
       current_price |-> 1000, ema_9 |-> f, ema_21 |-> s, adx_14 |-> a,
       atr_14 |-> 10, trend |-> t] :
          f \in {99, 100, 101, 102}, s \in {100, 101}, a \in {20, 25, 40},
          t \in {"bullish", "bearish"} }
    \cup
    { [pair |-> "EUR/USD", indicator_attributes |-> FALSE,
       current_price |-> 1000, ema_9 |-> 101, ema_21 |-> 100, adx_14 |-> 40,
       atr_14 |-> 10, trend |-> "bullish"],
      [pair |-> "GBP/USD", indicator_attributes |-> TRUE,
       current_price |-> 1000, ema_9 |-> 101, ema_21 |-> 100, adx_14 |-> 40,
       atr_14 |-> 10, trend |-> "bullish"] }

\* one call of TrendFollowingStrategy.analyze
TrendAnalyze ==
    /\ \E context \in TrendContexts :
        LET r == trend_analyze(tf_previous, context)
        IN  /\ tf_previous' = r.st
            /\ tf_call' = [context |-> context, previous |-> tf_previous]
            /\ tf_result' = [exc |-> r.exc, built |-> r.built,
                             signal |-> r.signal,
                             confidence |-> r.confidence]
    /\ UNCHANGED <<cbVars, orchVars, riskVars, btVars, rpVars, boVars,
                   paVars, tiVars>>

NextTrend ==
    \/ TrendAnalyze

SpecTrend == Init /\ [][NextTrend]_vars

-----------------------------------------------------------------------------
(* The technical indicators *)

\* closes of the candles: a flat series at 100.00 whose newest candle may
\* close at 110.00
SeriesCloses == {10000, 11000}

notTiVars == <<cbVars, orchVars, riskVars, btVars, rpVars, boVars, paVars,
               tfVars>>

\* the series grows by a candle
AddCandle ==
    /\ Len(ti_closes) < MaxSeries
    /\ IF ti_closes = <<>> THEN TRUE
       ELSE ti_closes[Len(ti_closes)] = 10000
    /\ \E close \in SeriesCloses : ti_closes' = Append(ti_closes, close)
    /\ ti_indicators' = {}
    /\ ti_single' = {}
    /\ ti_pc' = "series"
    /\ UNCHANGED notTiVars

\* calculate_all and each moving average function are called on the series
CalculateAll ==
    /\ ti_pc = "series"
    /\ ti_indicators' = calculate_all(ti_closes)
    /\ ti_single' = { <<ma[1], moving_average(ti_closes, ma)>> :
                        ma \in moving_averages }
    /\ ti_pc' = "calculated"
    /\ UNCHANGED ti_closes
    /\ UNCHANGED notTiVars

NextIndicators ==
    \/ AddCandle
    \/ CalculateAll

SpecIndicators == Init /\ [][NextIndicators]_vars

-----------------------------------------------------------------------------
(* Claims about repeated backtest runs *)

-----------------------------------------------------------------------------
(* Claims about the breakout strategy *)

\* the call was made on a valid context with enough history and the price
\* above the upper channel, with a confidence at or above the threshold
AboveChannel(call) ==
    /\ ~IsNone(call.channels)
    /\ call.context.current_price > Val(call.channels).upper
    /\ breakout_confidence(
           call.context.current_price - Val(call.channels).upper,
           Val(call.channels).upper - Val(call.channels).lower,
           call.context.volatility_percentile) >= breakout_threshold

\* the same below the lower channel
BelowChannel(call) ==
    /\ ~IsNone(call.channels)
    /\ call.context.current_price < Val(call.channels).lower
    /\ breakout_confidence(
           Val(call.channels).lower - call.context.current_price,
           Val(call.channels).upper - Val(call.channels).lower,
           call.context.volatility_percentile) >= breakout_threshold

\* analyze returned a StrategyResult without a signal
Quiet(result) == result.exc = "none" /\ IsNone(result.signal)

\* no analyze call ever returns a signal: where it would build one the
\* construction of the TradingSignal raises
BreakoutNeverReturnsSignal == IsNone(bo_result.signal)

BreakoutRaisedOnBreakout ==
    /\ AboveChannel(bo_call)
    /\ bo_result.exc = "ValueError"
    /\ bo_previous_position = "none"
    /\ Len(bo_price_history) > Lookback

-----------------------------------------------------------------------------
(* Claims about the performance analyzer *)

\* the highest of the first k points of the curve
PeakUpTo(curve, k) ==
    CHOOSE x \in {curve[j] : j \in 1..k} : \A j \in 1..k : x >= curve[j]

\* (running peak - equity) / running peak at point k, in units of 0.01
\* percent
DrawdownAt(curve, k) ==
    ((PeakUpTo(curve, k) - curve[k]) * 10000) \div PeakUpTo(curve, k)

\* C14: the max drawdown calculate_metrics reports for a run with trades is
\* the largest (running peak - equity) / running peak over the points of the
\* equity curve, 0 for a curve of one point; for the curve 10000, 11000,
\* 9000, 12000 it is (11000 - 9000) / 11000 = 18.18 percent
C14_MaxDrawdownIsLargestDropFromPeak ==
    (pa_pc = "returned" /\ pa_trades # <<>>) =>
        /\ \A k \in 1..Len(pa_equity_curve) :
              pa_metrics.max_drawdown >= DrawdownAt(pa_equity_curve, k)
        /\ \E k \in 1..Len(pa_equity_curve) :
              pa_metrics.max_drawdown = DrawdownAt(pa_equity_curve, k)
        /\ pa_equity_curve = <<10000, 11000, 9000, 12000>> =>
              pa_metrics.max_drawdown = 1818

\* calculate_metrics has returned for the curve 10000, 11000, 9000, 12000
\* and a trade list that is not empty
C14_Witness ==
    /\ pa_pc = "returned"
    /\ pa_trades # <<>>
    /\ pa_equity_curve = <<10000, 11000, 9000, 12000>>
    /\ pa_metrics.max_drawdown = 1818

\* the analyzer alone: calculate_metrics with an empty trade list returns
\* metrics whose every field is 0, whatever the equity curve and the initial
\* balance
EmptyTradeListGivesZeroMetrics ==
    (pa_pc = "returned" /\ pa_trades = <<>>) => pa_metrics = zero_metrics

\* C15: a run that records no trade, on a candle list of any length (the
\* lists shorter than the warm-up included), does not raise: it returns, and
\* the metrics of its result are all 0
C15_TradeFreeRunReturnsZeroMetrics ==
    /\ bt_pc \in {"loop", "check", "done"}
    /\ (bt_pc = "done" /\ bt_trades = <<>>) => bt_performance = zero_metrics

\* run has returned all-zero metrics for a candle list shorter than the
\* warm-up, and for a longer one on which no position was opened
TradeFreeRunReturned ==
    /\ bt_pc = "done"
    /\ bt_trades = <<>>
    /\ bt_performance = zero_metrics
    /\ bt_i < warmup \/ Len(bt_equity_curve) > 1

-----------------------------------------------------------------------------
(* Claims about the manual override and the loss counter *)

\* the first half of the claim about the override, on its own: while the
\* status is MANUAL_OVERRIDE check_all_conditions returns True for every
\* account and changes no field of the breaker
OverrideCheckPassesAndChangesNothing ==
    [][ (status = "MANUAL_OVERRIDE"
         /\ lastCall'.op = "check_all_conditions") =>
          /\ lastCall'.ret = "True"
          /\ UNCHANGED <<status, starting_balance_today, peak_equity,
                         consecutive_losses, last_reset_date, trip_history>>
      ]_vars

\* C16: while the status is MANUAL_OVERRIDE, check_all_conditions returns
\* True for every account and changes no breaker state, and the only
\* operation after which the status is no longer MANUAL_OVERRIDE is
\* disable_manual_override
C16_OverrideLeftOnlyByDisable ==
    [][ status = "MANUAL_OVERRIDE" =>
          /\ lastCall'.op = "check_all_conditions" =>
                /\ lastCall'.ret = "True"
                /\ UNCHANGED <<status, starting_balance_today, peak_equity,
                               consecutive_losses, last_reset_date,
                               trip_history>>
          /\ status' # "MANUAL_OVERRIDE" =>
                lastCall'.op = "disable_manual_override" ]_vars

\* a check_all_conditions call was made under the override on an account
\* that is beyond the daily-loss and the drawdown limit, and passed
OverrideCheckReached ==
    /\ status = "MANUAL_OVERRIDE"
    /\ lastCall.op = "check_all_conditions"
    /\ lastCall.ret = "True"
    /\ lastCall.acct.realized_pnl_today = -600
    /\ lastCall.acct.equity = 8400

\* C17: in every reachable state a breaker whose status is ACTIVE has a
\* consecutive-loss counter below max_consecutive_losses
C17_ActiveMeansCounterBelowLimit ==
    status = "ACTIVE" => consecutive_losses < max_consecutive_losses

\* without the two override operations the counter of an ACTIVE breaker
\* stays below the limit: every step that is not enable_manual_override or
\* disable_manual_override keeps the property
CounterBelowLimitButForOverride ==
    [][ (C17_ActiveMeansCounterBelowLimit
         /\ lastCall'.op \notin {"enable_manual_override",
                                 "disable_manual_override"}
         /\ status # "MANUAL_OVERRIDE")
        => C17_ActiveMeansCounterBelowLimit' ]_vars

-----------------------------------------------------------------------------
(* Claims about the independence of the validate_trade checks *)

StopReasons == {"stop_loss_buy", "stop_loss_sell"}

TargetReasons == {"take_profit_buy", "take_profit_sell"}

\* validate_trade never reports a stop-loss or take-profit on the wrong
\* side: such a signal has a risk:reward ratio of at most 0 and is rejected
\* by the first check
SideReasonsNeverReported ==
    rk_op = "validate_trade" =>
        rk_result.reason \notin StopReasons \cup TargetReasons

\* the four other rejection reasons are each reported for some BUY or SELL
\* signal and account
RiskRewardReported ==
    rk_op = "validate_trade" /\ rk_signal.direction \in {"BUY", "SELL"}
      /\ rk_result.reason = "risk_reward"

PositionSizeReported ==
    rk_op = "validate_trade" /\ rk_signal.direction \in {"BUY", "SELL"}
      /\ rk_result.reason = "position_size" /\ ~FailsRiskReward

ExposureReported ==
    rk_op = "validate_trade" /\ rk_signal.direction \in {"BUY", "SELL"}
      /\ rk_result.reason = "exposure" /\ ~FailsRiskReward /\ ~FailsSizeCap

MarginReported ==
    rk_op = "validate_trade" /\ rk_signal.direction \in {"BUY", "SELL"}
      /\ rk_result.reason = "margin" /\ ~FailsRiskReward /\ ~FailsSizeCap
      /\ ~FailsExposure /\ ~FailsStopSide /\ ~FailsTargetSide

\* C18: the checks are independent, so that each rejection reason can be the
\* one reported: a BUY or SELL signal whose stop-loss is on the wrong side
\* and whose size is within the size cap and the exposure limit is rejected
\* for its stop-loss, and one whose take-profit is on the wrong side, with
\* the stop-loss on the right side and the size within both limits, is
\* rejected for its take-profit
C18_SideChecksCanBeReported ==
    (rk_op = "validate_trade" /\ rk_signal.direction \in {"BUY", "SELL"}) =>
        /\ (FailsStopSide /\ ~FailsSizeCap /\ ~FailsExposure)
              => rk_result.reason \in StopReasons
        /\ (FailsTargetSide /\ ~FailsStopSide /\ ~FailsSizeCap
             /\ ~FailsExposure)
              => rk_result.reason \in TargetReasons

-----------------------------------------------------------------------------
(* Claims about the stop-loss and take-profit levels *)

\* the take-profit of the signal is where the ratio puts it, without the
\* floor of 0.0001: twice the entry -+ 3 times the risk is above twice the
\* floor
TargetNotFloored ==
    rk_signal.direction = "SELL" =>
        2 * rk_signal.entry_price
          - 3 * (rk_signal.stop_loss - rk_signal.entry_price) > 2 * min_level

\* the levels of a BUY or SELL signal are on their sides of the entry and
\* the reward is the minimum ratio times the risk
LevelsAsClaimed ==
    /\ rk_result.exc = "none"
    /\ rk_signal.direction = "BUY" =>
          /\ rk_signal.stop_loss < rk_signal.entry_price
          /\ rk_signal.take_profit > rk_signal.entry_price
          /\ 10 * (rk_signal.take_profit - rk_signal.entry_price)
               = min_risk_reward
                   * (rk_signal.entry_price - rk_signal.stop_loss)
    /\ rk_signal.direction = "SELL" =>
          /\ rk_signal.stop_loss > rk_signal.entry_price
          /\ rk_signal.take_profit < rk_signal.entry_price
          /\ 10 * (rk_signal.entry_price - rk_signal.take_profit)
               = min_risk_reward
                   * (rk_signal.stop_loss - rk_signal.entry_price)
    /\ ~FailsRiskReward /\ ~FailsStopSide /\ ~FailsTargetSide
    /\ rk_result.reason \notin {"risk_reward"} \cup StopReasons
                                 \cup TargetReasons

\* in exact arithmetic the levels are as claimed whenever the take-profit is
\* not floored
LevelsAsClaimedUnlessFloored ==
    (rk_op = "calculate_levels" /\ rk_signal.direction \in {"BUY", "SELL"}
     /\ TargetNotFloored) => LevelsAsClaimed

\* C19: for every positive entry price and ATR and for BUY and SELL the
\* stop-loss of calculate_stop_loss is on the losing side of the entry, the
\* take-profit of calculate_take_profit at the minimum ratio R is at
\* entry +- R * |entry - stop| on the winning side, and the signal with
\* these levels passes the risk:reward, stop-loss and take-profit checks of
\* validate_trade
C19_LevelsPassRatioAndSideChecks ==
    (rk_op = "calculate_levels" /\ rk_signal.direction \in {"BUY", "SELL"})
        => LevelsAsClaimed

-----------------------------------------------------------------------------
(* Claims about exceptions of the risk pipeline *)

\* adjust_signal_for_risk raised ValueError: the size it computed for a
\* signal with a positive entry price and stop distance rounds to 0
AdjustRaisedValueError ==
    /\ rk_op = "adjust_signal_for_risk"
    /\ rk_signal.entry_price > 0
    /\ rk_signal.entry_price # rk_signal.stop_loss
    /\ rk_account.balance > 0
    /\ rk_result.exc = "ValueError"

\* adjust_signal_for_risk returns whenever the size it computed is positive
AdjustRaisesOnlyOnZeroSize ==
    rk_op = "adjust_signal_for_risk" =>
        (rk_result.exc = "none") = (rk_result.size > 0)

\* validate_signal returned a report with a rejection reason
RejectionReported ==
    /\ lastCall.op = "validate_signal"
    /\ lastCall.ret = "report"
    /\ lastCall.report[1].rejection_reasons # <<>>

\* C20: for every TradingSignal and every Account validate_signal, with
\* size adjustment on or off, returns a report instead of raising; a signal
\* that fails a risk check is a rejection with a reason, never an exception
C20_ValidateSignalNeverRaises ==
    lastCall.op = "validate_signal" => lastCall.ret = "report"

-----------------------------------------------------------------------------
(* Claims about the risk pipeline of a backtest run *)

\* the account of a run whose balance is b: nothing open, the whole balance
\* free as margin, the P&L of the run realised today
RunAccount(b) ==
    [MkAccount(b, b, b - initial_balance) EXCEPT !.margin_available = b]

\* run takes a signal exactly when its StrategyResult has a signal and a
\* confidence of at least the threshold of the strategy
TakenSignalsAreConfident ==
    \A k \in 1..Len(bt_taken) : bt_taken[k].signal.confidence >= min_confidence

\* a position was opened right after a trade of the run was closed at a loss
OpenedAfterLoss ==
    /\ bt_pc = "check"
    /\ bt_trades # <<>>
    /\ bt_trades[Len(bt_trades)].pnl < 0
    /\ bt_opened # <<>>
    /\ bt_opened[Len(bt_opened)].opened_at = bt_i

\* C21: a position is opened on a candle only if the signal of the strategy
\* for that candle passed the risk validation (and the circuit breaker
\* allowed trading at that point): every signal a position was opened for
\* is valid for validate_trade on the account of the run
C21_OpenedOnlyIfValidated ==
    \A k \in 1..Len(bt_taken) :
        validate_trade(bt_taken[k].signal,
                       RunAccount(bt_taken[k].balance)).is_valid

-----------------------------------------------------------------------------
(* Claims about the size of the positions of a backtest run *)

\* the size of every opened position is the risked 2% of the balance
\* divided by the distance from the entry to the stop-loss, rounded down to
\* the unit of sizes, whatever the balance and the entry price
OpenedSizeIsRiskOverDistance ==
    \A k \in 1..Len(bt_opened) :
        LET p    == bt_opened[k]
            risk == (bt_taken[k].balance * backtest_risk_pct) \div 100
            dist == Abs(p.entry_price - p.stop_loss)
        IN  /\ dist > 0
            /\ p.size * dist <= risk * size_scale
            /\ risk * size_scale < (p.size + 1) * dist

\* C22: every position the engine opens is sized by the rule of the risk
\* assessor; its size is at most balance * max_position_size / entry_price
\* for any stop distance
C22_OpenedSizeWithinCap ==
    \A k \in 1..Len(bt_opened) :
        bt_opened[k].size * bt_opened[k].entry_price
            <= bt_taken[k].balance * max_position_size * size_per_pct

-----------------------------------------------------------------------------
(* Claims about the single position of a backtest run *)

\* the signal of the iteration in progress, when run takes it
SignalTaken ==
    /\ ~IsNone(bt_result.signal)
    /\ bt_result.confidence >= min_confidence

\* the positions opened and not yet closed are at most one, and the trades
\* are in the order of time: no trade begins before the one before it ended
OnePositionAndOrderedTrades ==
    /\ Len(bt_opened) - Len(bt_trades) \in {0, 1}
    /\ (bt_pc \in {"loop", "check"} /\ IsNone(bt_position))
          => Len(bt_opened) = Len(bt_trades)
    /\ \A k \in 1..Len(bt_trades) :
          bt_trades[k].entry_time <= bt_trades[k].exit_time
    /\ \A k \in 1..(Len(bt_trades) - 1) :
          bt_trades[k].exit_time <= bt_trades[k + 1].entry_time

\* the signal handling of one iteration with a position open: a signal in
\* the direction of the position changes nothing; an opposite signal
\* appends the trade of the open position, closed on this candle, adds its
\* P&L to the balance and opens the new position on the same candle
SignalHandlingWithPosition ==
    (bt_pc = "loop" /\ bt_pc' = "check" /\ ~IsNone(bt_position)
     /\ SignalTaken')
    => IF Val(bt_result'.signal).direction = Val(bt_position).direction
       THEN UNCHANGED <<bt_position, bt_trades, bt_balance, bt_opened>>
       ELSE /\ Len(bt_trades') = Len(bt_trades) + 1
            /\ SubSeq(bt_trades', 1, Len(bt_trades)) = bt_trades
            /\ LET trade == bt_trades'[Len(bt_trades')]
               IN  /\ trade.entry_time = Val(bt_position).opened_at
                   /\ trade.direction = Val(bt_position).direction
                   /\ trade.size = Val(bt_position).size
                   /\ trade.exit_time = bt_i
                   /\ bt_balance' = bt_balance + trade.pnl
            /\ ~IsNone(bt_position')
            /\ Val(bt_position').opened_at = bt_i
            /\ Val(bt_position').direction = Val(bt_result'.signal).direction
            /\ bt_opened' = Append(bt_opened, Val(bt_position'))

\* C23: during a run at most one position is open at any time; a signal
\* opposite to the open position closes it, recording its trade and
\* realising its P&L, before the new position is opened on the same candle;
\* a signal in the direction of the open position changes nothing; the
\* trades of the result are ordered and do not overlap in time
C23_OnePositionAtATime ==
    []OnePositionAndOrderedTrades /\ [][SignalHandlingWithPosition]_vars

\* an opposite signal has just reversed the position: the last trade was
\* closed on the candle on which the open position was opened
C23_Witness ==
    /\ bt_pc = "check"
    /\ SignalTaken
    /\ bt_trades # <<>>
    /\ bt_trades[Len(bt_trades)].exit_time = bt_i
    /\ ~IsNone(bt_position)
    /\ Val(bt_position).opened_at = bt_i
    /\ Val(bt_position).direction # bt_trades[Len(bt_trades)].direction

\* a signal in the direction of the open position has been left aside
SameDirectionSignalSeen ==
    /\ bt_pc = "check"
    /\ SignalTaken
    /\ ~IsNone(bt_position)
    /\ Val(bt_position).opened_at < bt_i
    /\ Val(bt_position).direction = Val(bt_result.signal).direction

-----------------------------------------------------------------------------
(* Claims about the equity curve of a backtest run *)

RECURSIVE PnlSum(_)
\* the sum of the P&L of a list of trades
PnlSum(trades) ==
    IF trades = <<>> THEN 0
    ELSE Head(trades).pnl + PnlSum(Tail(trades))

\* the unrealised P&L of a position at a price, rounded down to the cent
UnrealisedAt(position, price) ==
    IF position.direction = "BUY"
    THEN ((price - position.entry_price) * position.size) \div size_scale
    ELSE ((position.entry_price - price) * position.size) \div size_scale

\* the equity curve and the timestamps have one entry for the start of the
\* run and one for every candle past the warm-up that has been processed
CurveAndTimestampsInStep ==
    bt_pc # "IndexError" =>
        /\ Len(bt_equity_curve) = Len(bt_timestamps)
        /\ Len(bt_equity_curve)
             = 1 + (IF bt_i > warmup THEN bt_i - warmup ELSE 0)

\* the end of an iteration appends one equity point and one timestamp: the
\* balance when no position is open, which is the initial balance plus the
\* P&L of the trades so far, and the balance plus the unrealised P&L of the
\* open position at the close of the candle otherwise
EquityPointAppended ==
    (bt_pc = "check" /\ bt_pc' = "loop")
    => /\ Len(bt_equity_curve') = Len(bt_equity_curve) + 1
       /\ SubSeq(bt_equity_curve', 1, Len(bt_equity_curve)) = bt_equity_curve
       /\ bt_timestamps' = Append(bt_timestamps, bt_i)
       /\ LET point == bt_equity_curve'[Len(bt_equity_curve')]
          IN  IF IsNone(bt_position')
              THEN /\ point = bt_balance'
                   /\ point = initial_balance + PnlSum(bt_trades')
              ELSE point = bt_balance'
                             + UnrealisedAt(Val(bt_position'), bt_candle.close)

\* no other step of run touches the equity curve or the timestamps
CurveOnlyGrowsAtEndOfIteration ==
    ~(bt_pc = "check" /\ bt_pc' = "loop")
    => UNCHANGED <<bt_equity_curve, bt_timestamps>>

\* C24: after every processed candle run appends exactly one equity point,
\* the realised balance plus the unrealised P&L of the open position at the
\* close of that candle; the equity curve and the timestamps have equal
\* length, and a point recorded while no position is open is the initial
\* balance plus the P&L of the trades closed so far
C24_EquityPointPerCandle ==
    /\ []CurveAndTimestampsInStep
    /\ [][EquityPointAppended /\ CurveOnlyGrowsAtEndOfIteration]_vars

\* the curve holds a point with unrealised P&L and, after it, a point
\* recorded with no position open and a losing trade behind
C24_Witness ==
    /\ bt_pc = "loop"
    /\ Len(bt_equity_curve) = 3
    /\ IsNone(bt_position)
    /\ bt_trades # <<>>
    /\ bt_equity_curve[2] # initial_balance
    /\ bt_equity_curve[3] = bt_balance
    /\ bt_balance = initial_balance + PnlSum(bt_trades)
    /\ bt_balance < initial_balance
    /\ bt_trades[1].exit_time > bt_trades[1].entry_time

-----------------------------------------------------------------------------
(* Claims about the state a strategy keeps between runs *)

\* run has started with the strategy object an earlier run has used, and
\* the object is in the state that run left it in
StartedWithUsedStrategy ==
    /\ rp_pc # "start"
    /\ ~rp_fresh
    /\ rp_sb.used

\* run never puts the strategy it is given back into its initial state:
\* a strategy that was used before the run is still marked so in the run
RunNeverResetsStrategy ==
    (rp_pc # "start" /\ ~rp_fresh) => rp_sb.used

\* C25: the state of the strategy is reset when a run begins, so a run with
\* a strategy object that an earlier run has used gives the same trades as
\* the run with the newly constructed object on the same candles
C25_ReusedStrategyGivesSameTrades ==
    rp_pc = "done" => rp_a.trades = rp_b.trades

-----------------------------------------------------------------------------
(* Claims about the signal of a breakout *)

\* the last call found every condition of a BUY (SELL): a supported
\* instrument, lookback prices, the price above the upper (below the lower)
\* channel, a previous position other than long (short), and a confidence
\* at or above the threshold
BuyDue ==
    AboveChannel(bo_call) /\ bo_call.previous_position # "long"

SellDue ==
    BelowChannel(bo_call) /\ bo_call.previous_position # "short"

\* where a signal is due the call raises ValueError and leaves the previous
\* position as it found it
DueSignalRaises ==
    (BuyDue \/ SellDue) =>
        /\ bo_result.exc = "ValueError"
        /\ IsNone(bo_result.signal)
        /\ bo_previous_position = bo_call.previous_position

\* a SELL was due after a call that found the price inside the channel
SellDueReached ==
    /\ SellDue
    /\ bo_result.exc = "ValueError"

\* C26: when analyze is called with every condition of a BUY (SELL) met it
\* returns a StrategyResult whose signal is a BUY (SELL) TradingSignal and
\* records the previous position as long (short)
C26_DueSignalIsReturned ==
    /\ BuyDue =>
          /\ bo_result.exc = "none"
          /\ ~IsNone(bo_result.signal)
          /\ Val(bo_result.signal).direction = "BUY"
          /\ bo_previous_position = "long"
    /\ SellDue =>
          /\ bo_result.exc = "none"
          /\ ~IsNone(bo_result.signal)
          /\ Val(bo_result.signal).direction = "SELL"
          /\ bo_previous_position = "short"

-----------------------------------------------------------------------------
(* Claims about the crossover signals of the trend-following strategy *)

\* the fast and slow EMA of the last call and of the call before it
NowFast == tf_call.context.ema_9
NowSlow == tf_call.context.ema_21
PrevFast == Val(tf_call.previous).fast
PrevSlow == Val(tf_call.previous).slow

\* no analyze call ever returns a signal: where it builds one the
\* construction of the TradingSignal raises
TrendNeverReturnsSignal ==
    /\ IsNone(tf_result.signal)
    /\ tf_result.built # "none" => tf_result.exc = "ValueError"

\* the conditions under which the code builds a signal: previous values
\* exist, the fast EMA was at or below (at or above) the slow one and is
\* strictly above (below) it now, and the ADX is at or above the threshold
BuiltOnlyOnCrossingFromEqualOrBeyond ==
    /\ tf_result.built = "BUY" =>
          /\ ~IsNone(tf_call.previous)
          /\ PrevFast <= PrevSlow /\ NowFast > NowSlow
          /\ tf_call.context.adx_14 >= adx_threshold
    /\ tf_result.built = "SELL" =>
          /\ ~IsNone(tf_call.previous)
          /\ PrevFast >= PrevSlow /\ NowFast < NowSlow
          /\ tf_call.context.adx_14 >= adx_threshold

\* a BUY was built on a strict crossing with the ADX above the threshold
StrictCrossingBuilt ==
    /\ tf_result.built = "BUY"
    /\ PrevFast < PrevSlow /\ NowFast > NowSlow
    /\ tf_call.context.adx_14 > adx_threshold

-----------------------------------------------------------------------------
(* Claims about the total return of a backtest run *)

\* ((balance - initial_balance) / initial_balance) * 100 of the
\* BacktestResult, in units of 0.01 percent
ReturnOfFinalBalance ==
    ((bt_balance - initial_balance) * 10000) \div initial_balance

\* run has returned and no position was open when the data ended
ReturnedFlat == bt_pc = "done" /\ IsNone(bt_position)

\* the two returns agree when no position was open at the end of the data
ReturnsAgreeWhenFlat ==
    ReturnedFlat => bt_performance.total_return = ReturnOfFinalBalance

\* run has returned with trades and without a forced close at the end
ReturnedFlatWithTrades ==
    /\ ReturnedFlat
    /\ bt_trades # <<>>
    /\ bt_performance.total_return # 0

\* C28: the total return of the PerformanceMetrics is
\* (final - initial) / initial for the final balance of the run, also when
\* the last position was closed by the end of the data
C28_TotalReturnIsOfFinalBalance ==
    bt_pc = "done" => bt_performance.total_return = ReturnOfFinalBalance

-----------------------------------------------------------------------------
(* Claims about indicators whose window is longer than the series *)

\* the keys of a dictionary
Keys(d) == {p[1] : p \in d}

\* the moving averages whose period is longer than the series at hand
TooShortFor == {ma \in moving_averages : ma[3] > Len(ti_closes)}

\* each moving average function returns None exactly below its period
SingleFunctionsReturnNone ==
    ti_pc = "calculated" =>
        \A ma \in moving_averages :
            (<<ma[1], None>> \in ti_single) <=> (ma \in TooShortFor)

\* calculate_all on 50 or more candles maps every moving average whose
\* period is longer than the series to 0
AbsentIsMappedToZero ==
    (ti_pc = "calculated" /\ Len(ti_closes) >= min_candles) =>
        \A ma \in TooShortFor : <<ma[1], 0>> \in ti_indicators

\* calculate_all was called on a series long enough for ema_55 and too
\* short for sma_200: the first is a price, the second is 0
DefinedAndAbsentTogether ==
    /\ ti_pc = "calculated"
    /\ TooShortFor = {<<"sma_200", "sma", 200>>}
    /\ <<"sma_200", 0>> \in ti_indicators
    /\ \E p \in ti_indicators : p[1] = "ema_55" /\ p[2] >= 10000

\* C29: an indicator whose minimum window is longer than the candle series
\* is absent from what calculate_all returns, never mapped to 0.0 or
\* another default, and each single-indicator function returns None below
\* its minimum length
C29_AbsentIndicatorIsNeverANumber ==
    ti_pc = "calculated" =>
        /\ \A ma \in TooShortFor : ma[1] \notin Keys(ti_indicators)
        /\ \A ma \in TooShortFor : <<ma[1], None>> \in ti_single

\* C30: at every point of a backtest run the realised balance is the
\* initial balance plus the sum of the P&L, net of commission, of the trades
\* recorded so far, and so is the final balance of the returned result
C30_BalanceIsInitialPlusPnl ==
    bt_balance = initial_balance + PnlSum(bt_trades)

\* a run returned with two trades that paid commission and a final balance
\* other than the initial one
C30_Witness ==
    /\ bt_pc = "done"
    /\ Len(bt_trades) = 2
    /\ \A k \in 1..2 : bt_trades[k].commission > 0
    /\ bt_balance # initial_balance

====
